---- MODULE Spec2Model ----
(***************************************************************************)
(* go-eth: the transport hijack pipeline (rpc/transport Hijack), the       *)
(* built-in hijackers of package rpc, the client options that register     *)
(* them, and the transaction codec / signing functions they rely on.       *)
(*                                                                         *)
(* A JSON-RPC call is folded through a chain of hijacker stages; every     *)
(* stage is one action.  A stage either returns an error to the caller or  *)
(* tail-calls the next stage; the innermost stage (defCall) hands the      *)
(* request to the underlying transport.  Requests a stage issues itself    *)
(* (eth_chainId, eth_call, ...) go straight to the underlying transport.   *)
(***************************************************************************)
EXTENDS Integers, Sequences, FiniteSets, TLC

(***************************************************************************)
(* Bounds of the model.                                                    *)
(***************************************************************************)
\* addresses are 1..MaxAddr; private key k has address k
MaxAddr == 2
\* numbers a node answers with (chain id, nonce, gas, gas price): 0..MaxVal
MaxVal == 1
\* number of per-call hijackers one WithHijackers call attaches
MaxAttach == 2
\* number of contexts derived with WithHijackers
MaxCtx == 4
\* number of Use registrations on one Hijack transport
MaxUse == 3
\* number of options passed to NewClient
MaxOpts == 5
\* concurrent calls through one chain-ID hijacker
MaxCalls == 2
\* the width in bits the model gives a uint64: its arithmetic wraps around at
\* 2^UintBits the way the code's wraps around at 2^64
UintBits == 6

(***************************************************************************)
(* Optional values (Go pointers that may be nil).                          *)
(***************************************************************************)
None == <<>>
Some(v) == <<v>>
IsSet(x) == x # <<>>
OrZero(x) == IF x = <<>> THEN 0 ELSE x[1]

Addrs == 1..MaxAddr

\* uint64 arithmetic and big.Int.Uint64(): the low bits of a natural number
Uint64Range == 2 ^ UintBits
Uint64(n) == n % Uint64Range
NodeVals == 0..MaxVal

(***************************************************************************)
(* types.TransactionType                                                   *)
(***************************************************************************)
LegacyTxType == 0
AccessListTxType == 1
DynamicFeeTxType == 2
BlobTxType == 3
\* a type byte the default decoder has no constructor for
UnknownTxType == 4

TxTypes == {LegacyTxType, AccessListTxType, DynamicFeeTxType, BlobTxType}

(***************************************************************************)
(* Transactions.  A transaction is a record; a fragment a variant does not *)
(* embed stays at its zero value.  TransactionUnknown has no fragments.    *)
(***************************************************************************)
EmptyTx(typ) ==
    [t |-> "tx", type |-> typ,
     from |-> None, to |-> None, gasLimit |-> None, value |-> None, input |-> <<>>,
     chainID |-> None, nonce |-> None, sig |-> None,
     gasPrice |-> None,
     accessList |-> <<>>,
     maxFee |-> None, maxPrio |-> None,
     blobFee |-> None, blobs |-> <<>>]

HasCallData(tx) == tx.type \in TxTypes
HasLegacyPrice(tx) == tx.type \in {LegacyTxType, AccessListTxType}
HasAccessListData(tx) == tx.type \in {AccessListTxType, DynamicFeeTxType, BlobTxType}
HasDynamicFeeData(tx) == tx.type \in {DynamicFeeTxType, BlobTxType}
HasBlobData(tx) == tx.type = BlobTxType

(***************************************************************************)
(* Blobs.  A blob is [hash, sidecar]: hash 0 is the zero hash, the sidecar *)
(* (blob, commitment, proof) is optional and modelled by one number.       *)
(***************************************************************************)
ZeroHash == 0
Blob(hash, sidecar) == [hash |-> hash, sidecar |-> sidecar]
\* BlobSidecar.ComputeHash: the versioned hash of the commitment
ComputeHash(sc) == MaxVal + 1 + sc

\* the hash list of the blobs: a zero hash is replaced by the sidecar's
BlobHashes(blobs) ==
    [i \in 1..Len(blobs) |->
        IF blobs[i].hash = ZeroHash /\ IsSet(blobs[i].sidecar)
        THEN ComputeHash(blobs[i].sidecar[1]) ELSE blobs[i].hash]

\* the sidecars of the blobs that have one, in order
RECURSIVE Sidecars(_)
Sidecars(blobs) ==
    IF blobs = <<>> THEN <<>>
    ELSE (IF IsSet(Head(blobs).sidecar) THEN <<Head(blobs).sidecar[1]>> ELSE <<>>)
         \o Sidecars(Tail(blobs))

(***************************************************************************)
(* tx.Call(): the copy of the fragments eth_call / eth_estimateGas take.   *)
(* TransactionUnknown.Call() is nil.                                       *)
(***************************************************************************)
TxCall(tx) ==
    IF ~HasCallData(tx) THEN None
    ELSE Some([t |-> "call", type |-> tx.type,
               from |-> tx.from, to |-> tx.to, gasLimit |-> tx.gasLimit,
               value |-> tx.value, input |-> tx.input,
               gasPrice |-> IF HasLegacyPrice(tx) THEN tx.gasPrice ELSE None,
               accessList |-> IF HasAccessListData(tx) THEN tx.accessList ELSE <<>>,
               maxFee |-> IF HasDynamicFeeData(tx) THEN tx.maxFee ELSE None,
               maxPrio |-> IF HasDynamicFeeData(tx) THEN tx.maxPrio ELSE None,
               blobFee |-> IF HasBlobData(tx) THEN tx.blobFee ELSE None,
               blobs |-> IF HasBlobData(tx) THEN tx.blobs ELSE <<>>])

(***************************************************************************)
(* CalculateSigningHash: the hash is modelled by its preimage, the list    *)
(* that is RLP-encoded and hashed.  Unset fields enter with their zero     *)
(* value.  Legacy appends (chainID, 0, 0) only for a non-zero chain ID.    *)
(***************************************************************************)
CalculateSigningHash(tx) ==
    [type |-> tx.type,
     eip155 |-> IF tx.type = LegacyTxType
                THEN (IF IsSet(tx.chainID) /\ tx.chainID[1] # 0 THEN tx.chainID ELSE None)
                ELSE Some(OrZero(tx.chainID)),
     nonce |-> OrZero(tx.nonce),
     gasPrice |-> IF HasLegacyPrice(tx) THEN OrZero(tx.gasPrice) ELSE 0,
     maxPrio |-> IF HasDynamicFeeData(tx) THEN OrZero(tx.maxPrio) ELSE 0,
     maxFee |-> IF HasDynamicFeeData(tx) THEN OrZero(tx.maxFee) ELSE 0,
     gasLimit |-> OrZero(tx.gasLimit),
     to |-> tx.to,
     value |-> OrZero(tx.value),
     input |-> tx.input,
     accessList |-> IF HasAccessListData(tx) THEN tx.accessList ELSE <<>>,
     blobFee |-> IF HasBlobData(tx) THEN OrZero(tx.blobFee) ELSE 0,
     blobHashes |-> IF HasBlobData(tx) THEN BlobHashes(tx.blobs) ELSE <<>>]

(***************************************************************************)
(* ecdsa.SignHash / ecdsa.RecoverHash.  (r, s) is modelled by the pair     *)
(* (signing key, hash signed); the recovery bit depends on both and is     *)
(* modelled by the key's parity.  Recovery with the hash and recovery bit  *)
(* that were signed yields the signer's address, any other combination     *)
(* yields the address of no known key.                                     *)
(***************************************************************************)
KeyAddress(key) == key
UnknownSigner == MaxAddr + 1
RecoveryBit(key) == key % 2

SignHash(key, hash) == [v |-> RecoveryBit(key), rs |-> [signer |-> key, hash |-> hash]]

RecoverHash(hash, sig) ==
    LET v == IF sig.v \in {0, 1} THEN sig.v + 27 ELSE sig.v
    IN  IF sig.v < 0 \/ sig.v > 255 THEN None
        ELSE IF v \notin {27, 28} THEN None
        ELSE IF sig.rs.hash = hash /\ v = RecoveryBit(sig.rs.signer) + 27
             THEN Some(KeyAddress(sig.rs.signer))
             ELSE Some(UnknownSigner)

\* a signing that hashes the transaction as it was before nonce and gas limit
\* were filled in
SignStale(key, tx) ==
    LET stale == [tx EXCEPT !.nonce = None, !.gasLimit = None]
        sig == SignHash(key, CalculateSigningHash(stale))
        sv == IF tx.type = LegacyTxType
              THEN (IF IsSet(tx.chainID) THEN sig.v + Uint64(tx.chainID[1] * 2) + 35
                    ELSE sig.v + 27)
              ELSE sig.v
    IN  [tx EXCEPT !.sig = Some([v |-> sv, rs |-> sig.rs]),
                   !.from = IF HasCallData(tx) THEN Some(KeyAddress(key)) ELSE @]

(***************************************************************************)
(* txsign.Sign: signs the signing hash, derives v (EIP-155 for Legacy),    *)
(* stores the signature and the signer's address in the transaction.       *)
(***************************************************************************)
Sign(key, tx) ==
    LET sig == SignHash(key, CalculateSigningHash(tx))
        sv == IF tx.type = LegacyTxType
              THEN (IF IsSet(tx.chainID) THEN sig.v + Uint64(tx.chainID[1] * 2) + 35
                    ELSE sig.v + 27)
              ELSE sig.v
    IN  [tx EXCEPT !.sig = Some([v |-> sv, rs |-> sig.rs]),
                   !.from = IF HasCallData(tx) THEN Some(KeyAddress(key)) ELSE @]

(***************************************************************************)
(* txsign.Recover: None models an error return.                            *)
(***************************************************************************)
Recover(tx) ==
    IF ~IsSet(tx.sig) THEN None
    ELSE LET sig == tx.sig[1]
             x == sig.v - 35
             nv == IF tx.type # LegacyTxType THEN sig.v
                   ELSE IF sig.v >= 35 THEN (x % 2) + 27 ELSE sig.v - 27
         IN  IF tx.type = LegacyTxType /\ sig.v >= 35
                /\ IsSet(tx.chainID) /\ tx.chainID[1] # Uint64(x \div 2)
             THEN None
             ELSE RecoverHash(CalculateSigningHash(tx), [v |-> nv, rs |-> sig.rs])

(***************************************************************************)
(* EncodeRLP: every field is emitted, an unset one as its zero value.  The *)
(* sender is not part of the encoding.  Legacy carries the chain ID only   *)
(* inside v.  The byte string is modelled by the list it encodes.          *)
(***************************************************************************)
EncodeRLP(tx) ==
    [t |-> "bytes", form |-> "rlp", type |-> tx.type,
     chainID |-> IF tx.type = LegacyTxType THEN 0 ELSE OrZero(tx.chainID),
     nonce |-> OrZero(tx.nonce),
     gasPrice |-> IF HasLegacyPrice(tx) THEN OrZero(tx.gasPrice) ELSE 0,
     maxPrio |-> IF HasDynamicFeeData(tx) THEN OrZero(tx.maxPrio) ELSE 0,
     maxFee |-> IF HasDynamicFeeData(tx) THEN OrZero(tx.maxFee) ELSE 0,
     gasLimit |-> OrZero(tx.gasLimit),
     to |-> tx.to,
     value |-> OrZero(tx.value),
     input |-> tx.input,
     accessList |-> IF HasAccessListData(tx) THEN tx.accessList ELSE <<>>,
     blobFee |-> IF HasBlobData(tx) THEN OrZero(tx.blobFee) ELSE 0,
     blobHashes |-> IF HasBlobData(tx) THEN BlobHashes(tx.blobs) ELSE <<>>,
     \* the network form carries the sidecars, and only when every blob has one
     sidecars |-> IF /\ HasBlobData(tx) /\ Len(tx.blobs) > 0
                     /\ Len(Sidecars(tx.blobs)) = Len(tx.blobs)
                  THEN Sidecars(tx.blobs) ELSE <<>>,
     v |-> IF IsSet(tx.sig) THEN tx.sig[1].v ELSE 0,
     rs |-> IF IsSet(tx.sig) THEN Some(tx.sig[1].rs) ELSE None]

\* byte strings that are no transaction encoding
EmptyBytes == [t |-> "bytes", form |-> "empty"]
MalformedBytes == [t |-> "bytes", form |-> "malformed"]
UnknownTypeBytes == [t |-> "bytes", form |-> "rlp", type |-> UnknownTxType]

\* a decoder that stores no scalar field
NilAlways(n) == None

ZeroIsNil(n) == IF n = 0 THEN None ELSE Some(n)

(***************************************************************************)
(* Transaction<Variant>.DecodeRLP: a field is stored only when its decoded *)
(* value is not the zero value; Legacy derives the chain ID from v >= 35.  *)
(***************************************************************************)
TxDecodeRLP(raw) ==
    LET signed == raw.v # 0 \/ IsSet(raw.rs)
        base == EmptyTx(raw.type)
    IN  [base EXCEPT
            !.chainID = IF raw.type = LegacyTxType
                        THEN (IF signed /\ raw.v >= 35
                              THEN Some(Uint64((raw.v - 35) \div 2)) ELSE None)
                        ELSE ZeroIsNil(raw.chainID),
            !.nonce = ZeroIsNil(raw.nonce),
            !.gasPrice = ZeroIsNil(raw.gasPrice),
            !.maxPrio = ZeroIsNil(raw.maxPrio),
            !.maxFee = ZeroIsNil(raw.maxFee),
            !.gasLimit = ZeroIsNil(raw.gasLimit),
            !.to = raw.to,
            !.value = ZeroIsNil(raw.value),
            !.input = raw.input,
            !.accessList = raw.accessList,
            !.blobFee = ZeroIsNil(raw.blobFee),
            !.blobs = [i \in 1..Len(raw.blobHashes) |->
                          Blob(raw.blobHashes[i],
                               IF i <= Len(raw.sidecars) THEN Some(raw.sidecars[i])
                               ELSE None)],
            !.sig = IF signed
                    THEN Some([v |-> raw.v,
                               rs |-> IF IsSet(raw.rs) THEN raw.rs[1]
                                      ELSE [signer |-> 0, hash |-> <<>>]])
                    ELSE None]

(***************************************************************************)
(* TypedTransactionDecoder.DecodeRLP (DefaultTransactionDecoder, which     *)
(* ignores unknown types): [ok, tx].                                       *)
(***************************************************************************)
DecodeRLP(raw) ==
    IF raw.form = "empty" THEN [ok |-> FALSE, tx |-> None]
    ELSE IF raw.form = "malformed" THEN [ok |-> FALSE, tx |-> None]
    ELSE IF raw.type \notin TxTypes THEN [ok |-> TRUE, tx |-> Some(EmptyTx(raw.type))]
    ELSE [ok |-> TRUE, tx |-> Some(TxDecodeRLP(raw))]

(***************************************************************************)
(* Errors.  ErrHijackFailed carries the hijacker's name and the cause;     *)
(* origin records the stage whose code created the error value.            *)
(***************************************************************************)
NoErr == [wrapped |-> FALSE, name |-> "", cause |-> "", origin |-> ""]
ErrHijackFailed(name, cause, origin) ==
    [wrapped |-> TRUE, name |-> name, cause |-> cause, origin |-> origin]
PlainErr(cause, origin) == [wrapped |-> FALSE, name |-> "", cause |-> cause, origin |-> origin]
\* a nil dereference: the call does not return, the goroutine panics
Panic(origin) == [wrapped |-> FALSE, name |-> "", cause |-> "panic", origin |-> origin]

(***************************************************************************)
(* What a stage does with a call: it returns err to its caller, or it      *)
(* invokes next with (method, args, result).  reqs are the requests the    *)
(* stage itself sent to the underlying transport, in order.                *)
(***************************************************************************)
Forward(method, args, result, reqs) ==
    [next |-> TRUE, method |-> method, args |-> args, result |-> result,
     err |-> NoErr, reqs |-> reqs]
Return(method, args, result, err, reqs) ==
    [next |-> FALSE, method |-> method, args |-> args, result |-> result,
     err |-> err, reqs |-> reqs]

\* a request a stage sends to the node, with the node's answer to it
Req(method, args, resp) == [method |-> method, args |-> args, resp |-> resp]

\* a node's answer to a request of a stage: None is an error
NodeResp == {None} \cup {Some(v) : v \in NodeVals}

\* argument and result values are tagged with their Go type
IsTransaction(a) == a.t = "tx"
IsCall(a) == a.t = "call"
IsBytes(a) == a.t = "bytes"
OtherArg == [t |-> "other"]
BlockArg(tag) == [t |-> "block", tag |-> tag]
AddressArg(a) == [t |-> "addr", a |-> a]
\* a result target: the Go type of the pointer and the value written to it
ResultOf(ty) == [ty |-> ty, val |-> None]

(***************************************************************************)
(* hijackAddress.Call.  h = [kind, address, replace].                      *)
(***************************************************************************)
hijackAddress(h, method, args, result) ==
    IF Len(args) = 0 THEN Forward(method, args, result, <<>>)
    ELSE IF method = "eth_sendTransaction" /\ ~IsTransaction(args[1])
    THEN Return(method, args, result,
                ErrHijackFailed("address", "invalid transaction type", "address"), <<>>)
    ELSE IF method \in {"eth_call", "eth_estimateGas"} /\ ~IsCall(args[1])
    THEN Return(method, args, result,
                ErrHijackFailed("address", "invalid call type", "address"), <<>>)
    ELSE IF method \notin {"eth_sendTransaction", "eth_call", "eth_estimateGas"}
    THEN Forward(method, args, result, <<>>)
    ELSE IF (IsTransaction(args[1]) /\ ~HasCallData(args[1]))
            \/ (h.replace /\ IsSet(args[1].from))
    THEN Forward(method, args, result, <<>>)
    ELSE Forward(method, [args EXCEPT ![1].from = Some(h.address)], result, <<>>)

(***************************************************************************)
(* hijackSimulate.simulate.  h = [kind, decoder, recoverer]; decoder and   *)
(* recoverer tell whether the field is non-nil.  resp is the node's answer *)
(* to eth_call.  Yields the error cause ("" for nil), the transaction      *)
(* (its sender may have been recovered) and the requests sent.             *)
(***************************************************************************)
simulate(h, tx, resp) ==
    LET needRecover == HasCallData(tx) /\ IsSet(tx.sig) /\ ~IsSet(tx.from)
        from == Recover(tx)
        tx1 == IF needRecover /\ IsSet(from) THEN [tx EXCEPT !.from = from] ELSE tx
        call == TxCall(tx1)
    IN  IF needRecover /\ ~h.recoverer
        THEN [cause |-> "panic", tx |-> tx, reqs |-> <<>>]
        ELSE IF needRecover /\ ~IsSet(from)
        THEN [cause |-> "unable to recover transaction sender", tx |-> tx, reqs |-> <<>>]
        ELSE IF ~IsSet(call)
        THEN [cause |-> "unable to create call data from transaction", tx |-> tx1, reqs |-> <<>>]
        ELSE [cause |-> IF IsSet(resp) THEN "" ELSE "eth_call failed",
              tx |-> tx1,
              reqs |-> <<Req("eth_call", <<call[1], BlockArg("latest")>>, resp)>>]

SimulateErr(cause) ==
    IF cause = "panic" THEN Panic("simulate") ELSE ErrHijackFailed("simulate", cause, "simulate")

\* a simulate stage that forwards every call without simulating it
hijackSimulateSkipped(h, method, args, result, resp) == Forward(method, args, result, <<>>)

(***************************************************************************)
(* hijackSimulate.Call                                                     *)
(***************************************************************************)
hijackSimulate(h, method, args, result, resp) ==
    IF method = "eth_sendTransaction"
    THEN IF Len(args) = 0
         THEN Return(method, args, result,
                     ErrHijackFailed("simulate", "missing transaction data", "simulate"), <<>>)
         ELSE IF ~IsTransaction(args[1])
         THEN Return(method, args, result,
                     ErrHijackFailed("simulate", "invalid transaction type", "simulate"), <<>>)
         ELSE LET sim == simulate(h, args[1], resp)
                  args1 == [args EXCEPT ![1] = sim.tx]
              IN  IF sim.cause # ""
                  THEN Return(method, args1, result, SimulateErr(sim.cause), sim.reqs)
                  ELSE Forward(method, args1, result, sim.reqs)
    ELSE IF method \in {"eth_sendRawTransaction", "eth_sendPrivateTransaction"}
    THEN IF Len(args) = 0
         THEN Return(method, args, result,
                     ErrHijackFailed("simulate", "missing transaction data", "simulate"), <<>>)
         ELSE IF ~IsBytes(args[1])
         THEN Return(method, args, result,
                     ErrHijackFailed("simulate", "invalid transaction data type", "simulate"), <<>>)
         ELSE IF ~h.decoder
         THEN Return(method, args, result, Panic("simulate"), <<>>)
         ELSE LET dec == DecodeRLP(args[1])
              IN  IF ~dec.ok
                  THEN Return(method, args, result,
                              ErrHijackFailed("simulate", "failed to decode transaction", "simulate"),
                              <<>>)
                  ELSE LET sim == simulate(h, dec.tx[1], resp)
                       IN  IF sim.cause # ""
                           THEN Return(method, args, result, SimulateErr(sim.cause), sim.reqs)
                           ELSE Forward(method, args, result, sim.reqs)
    ELSE Forward(method, args, result, <<>>)

(***************************************************************************)
(* wallet.Key.  A key is [addr, ok]: the address it signs for, and whether *)
(* its signing methods succeed (a PrivateKey always signs; a remote key    *)
(* may return an error).  The private key of address a is a.               *)
(***************************************************************************)
Key(addr, ok) == [addr |-> addr, ok |-> ok]

\* index of the first key of the list that has the address, 0 if none
RECURSIVE FirstKey(_, _, _)
FirstKey(keys, addr, i) ==
    IF i > Len(keys) THEN 0
    ELSE IF keys[i].addr = addr THEN i
    ELSE FirstKey(keys, addr, i + 1)

SignMessage(key, data) == [v |-> RecoveryBit(key) + 27, rs |-> [signer |-> key, hash |-> data]]

\* hijackSign.hijackAccountsCall
hijackAccountsCall(h) == [n \in 1..Len(h.keys) |-> h.keys[n].addr]

\* hijackSign.hijackSignCall
hijackSignCall(h, method, args, result) ==
    LET i == FirstKey(h.keys, args[1].a, 1)
    IN  IF i = 0
        THEN Return(method, args, result,
                    ErrHijackFailed("sign", "no key found for address", "sign"), <<>>)
        ELSE IF ~h.keys[i].ok
        THEN Return(method, args, result, PlainErr("sign message failed", "sign"), <<>>)
        ELSE Return(method, args,
                    [result EXCEPT !.val = Some(SignMessage(h.keys[i].addr, args[2]))],
                    NoErr, <<>>)

\* the part hijackSignTransactionCall and hijackSendTransactionCall share:
\* the error they return before a key has signed, NoErr if a key signs
SignTxErr(h, tx) ==
    IF Len(h.keys) = 0 THEN PlainErr("no keys found", "sign")
    ELSE IF ~HasCallData(tx) THEN Panic("sign")
    ELSE IF ~IsSet(tx.from) THEN ErrHijackFailed("sign", "'from' field not set", "sign")
    ELSE LET i == FirstKey(h.keys, tx.from[1], 1)
         IN  IF i = 0 THEN ErrHijackFailed("sign", "no key found for address", "sign")
             ELSE IF ~h.keys[i].ok THEN ErrHijackFailed("sign", "sign transaction failed", "sign")
             ELSE NoErr

\* the transaction after the first matching key has signed it
SignedBy(h, tx) == Sign(h.keys[FirstKey(h.keys, tx.from[1], 1)].addr, tx)

\* hijackSign.hijackSignTransactionCall
hijackSignTransactionCall(h, method, args, result) ==
    LET err == SignTxErr(h, args[1])
    IN  IF err # NoErr THEN Return(method, args, result, err, <<>>)
        ELSE LET tx == SignedBy(h, args[1])
             IN  Return(method, [args EXCEPT ![1] = tx],
                        [result EXCEPT !.val = Some(EncodeRLP(tx))], NoErr, <<>>)

\* a send that is passed on as it came, unsigned
hijackSendTransactionCallUnsigned(h, method, args, result) ==
    Forward(method, args, result, <<>>)

\* hijackSign.hijackSendTransactionCall
hijackSendTransactionCall(h, method, args, result) ==
    LET err == SignTxErr(h, args[1])
    IN  IF err # NoErr THEN Return(method, args, result, err, <<>>)
        ELSE Forward("eth_sendRawTransaction", <<EncodeRLP(SignedBy(h, args[1]))>>, result, <<>>)

\* a sign stage that answers every call itself
hijackSignSwallows(h, method, args, result) == Return(method, args, result, NoErr, <<>>)

(***************************************************************************)
(* hijackSign.Call.  h = [kind, keys].                                     *)
(***************************************************************************)
hijackSign(h, method, args, result) ==
    IF method = "eth_accounts"
    THEN IF result.ty # "Addresses"
         THEN Return(method, args, result,
                     ErrHijackFailed("sign", "invalid result type", "sign"), <<>>)
         ELSE Return(method, args, [result EXCEPT !.val = Some(hijackAccountsCall(h))],
                     NoErr, <<>>)
    ELSE IF method = "eth_sign" /\ Len(args) = 2
    THEN IF result.ty # "Signature"
         THEN Return(method, args, result, PlainErr("invalid result type", "sign"), <<>>)
         ELSE IF args[1].t # "addr"
         THEN Return(method, args, result,
                     ErrHijackFailed("sign", "invalid result type", "sign"), <<>>)
         ELSE IF args[2].t # "data"
         THEN Return(method, args, result,
                     ErrHijackFailed("sign", "invalid data type", "sign"), <<>>)
         ELSE hijackSignCall(h, method, args, result)
    ELSE IF method = "eth_signTransaction" /\ Len(args) = 1
    THEN IF result.ty # "ByteSlice"
         THEN Return(method, args, result,
                     ErrHijackFailed("sign", "invalid result type", "sign"), <<>>)
         ELSE IF ~IsTransaction(args[1])
         THEN Return(method, args, result,
                     ErrHijackFailed("sign", "invalid transaction type", "sign"), <<>>)
         ELSE hijackSignTransactionCall(h, method, args, result)
    ELSE IF method = "eth_sendTransaction" /\ Len(args) = 1
    THEN IF result.ty # "Hash"
         THEN Return(method, args, result,
                     ErrHijackFailed("sign", "invalid result type", "sign"), <<>>)
         ELSE IF ~IsTransaction(args[1])
         THEN Return(method, args, result,
                     ErrHijackFailed("sign", "invalid transaction type", "sign"), <<>>)
         ELSE hijackSendTransactionCall(h, method, args, result)
    ELSE Forward(method, args, result, <<>>)

(***************************************************************************)
(* hijackChainID.Call.  h = [kind, replace, chainID]; chainID is the       *)
(* variable the closure captured (initialised from the configured chain    *)
(* ID); 0 means "ask the node".  resp is the node's answer to eth_chainId. *)
(***************************************************************************)
\* the call gets as far as needing a chain ID
ChainIDApplies(h, method, args) ==
    /\ method = "eth_sendTransaction" /\ Len(args) > 0
    /\ IsTransaction(args[1]) /\ HasCallData(args[1])
    /\ (h.replace \/ ~IsSet(args[1].chainID))

hijackChainID(h, method, args, result, resp) ==
    IF method # "eth_sendTransaction" \/ Len(args) = 0
    THEN Forward(method, args, result, <<>>)
    ELSE IF ~IsTransaction(args[1])
    THEN Return(method, args, result,
                ErrHijackFailed("chain ID", "invalid transaction type", "chain ID"), <<>>)
    ELSE IF ~HasCallData(args[1])
    THEN Return(method, args, result, Panic("chain ID"), <<>>)
    ELSE IF ~h.replace /\ IsSet(args[1].chainID)
    THEN Forward(method, args, result, <<>>)
    ELSE IF h.chainID # 0
    THEN Forward(method, [args EXCEPT ![1].chainID = Some(h.chainID)], result, <<>>)
    ELSE IF ~IsSet(resp)
    THEN Return(method, args, result,
                ErrHijackFailed("chain ID", "failed to get chain ID", "chain ID"),
                <<Req("eth_chainId", <<>>, resp)>>)
    ELSE Forward(method, [args EXCEPT ![1].chainID = resp], result,
                 <<Req("eth_chainId", <<>>, resp)>>)

\* the captured variable after the call
chainIDAfter(h, method, args, resp) ==
    IF ChainIDApplies(h, method, args) /\ h.chainID = 0 THEN OrZero(resp) ELSE h.chainID

\* a nonce stage that asks the node whatever the transaction already holds
hijackNonceAlways(h, method, args, result, resp) ==
    IF /\ method = "eth_sendTransaction" /\ Len(args) > 0 /\ IsTransaction(args[1])
       /\ HasCallData(args[1]) /\ IsSet(args[1].from) /\ IsSet(resp)
    THEN Forward(method, [args EXCEPT ![1].nonce = resp], result,
                 <<Req("eth_getTransactionCount",
                       <<AddressArg(args[1].from[1]), BlockArg("latest")>>, resp)>>)
    ELSE Forward(method, args, result, <<>>)

\* a nonce stage that lets a transaction without a sender through unresolved
hijackNonceNoSender(h, method, args, result, resp) ==
    IF /\ method = "eth_sendTransaction" /\ Len(args) > 0 /\ IsTransaction(args[1])
       /\ HasCallData(args[1]) /\ IsSet(args[1].from)
    THEN hijackNonceAlways(h, method, args, result, resp)
    ELSE Forward(method, args, result, <<>>)

(***************************************************************************)
(* hijackNonce.Call.  h = [kind, usePendingBlock, replace].                *)
(***************************************************************************)
hijackNonce(h, method, args, result, resp) ==
    IF method # "eth_sendTransaction" \/ Len(args) = 0
    THEN Forward(method, args, result, <<>>)
    ELSE IF ~IsTransaction(args[1])
    THEN Return(method, args, result,
                ErrHijackFailed("nonce", "invalid transaction type", "nonce"), <<>>)
    ELSE IF ~HasCallData(args[1])
    THEN Return(method, args, result, Panic("nonce"), <<>>)
    ELSE IF ~h.replace /\ IsSet(args[1].nonce)
    THEN Forward(method, args, result, <<>>)
    ELSE IF ~IsSet(args[1].from)
    THEN Return(method, args, result,
                ErrHijackFailed("nonce", "'from' field not set", "nonce"), <<>>)
    ELSE LET block == IF h.usePendingBlock THEN "pending" ELSE "latest"
             req == Req("eth_getTransactionCount",
                        <<AddressArg(args[1].from[1]), BlockArg(block)>>, resp)
         IN  IF ~IsSet(resp)
             THEN Return(method, args, result,
                         ErrHijackFailed("nonce", "failed to get transaction count", "nonce"),
                         <<req>>)
             ELSE Forward(method, [args EXCEPT ![1].nonce = resp], result, <<req>>)

(***************************************************************************)
(* Multipliers are float64 in the code; the model uses the fraction        *)
(* num/den and the truncation the big.Float conversion performs.           *)
(***************************************************************************)
Multiply(v, m) == (v * m.num) \div m.den

\* clamp with bounds that 0 switches off (uint64 bounds of the gas limit)
ClampGas(v, min, max) ==
    LET lo == IF min > 0 /\ v < min THEN min ELSE v
    IN  IF max > 0 /\ lo > max THEN max ELSE lo

\* a clamp that applies the lower bound only
ClampFeeMinOnly(v, min, max) == IF IsSet(min) /\ v < min[1] THEN min[1] ELSE v

\* clamp with bounds that nil switches off (*big.Int bounds of the fees)
ClampFee(v, min, max) ==
    LET lo == IF IsSet(min) /\ v < min[1] THEN min[1] ELSE v
    IN  IF IsSet(max) /\ lo > max[1] THEN max[1] ELSE lo

(***************************************************************************)
(* hijackGasLimit.Call.  h = [kind, multiplier, minGas, maxGas, replace].  *)
(***************************************************************************)
hijackGasLimit(h, method, args, result, resp) ==
    IF method # "eth_sendTransaction" \/ Len(args) = 0
    THEN Forward(method, args, result, <<>>)
    ELSE IF ~IsTransaction(args[1])
    THEN Return(method, args, result,
                ErrHijackFailed("gas limit", "invalid transaction type", "gas limit"), <<>>)
    ELSE IF ~HasCallData(args[1])
    THEN Return(method, args, result, Panic("gas limit"), <<>>)
    ELSE IF ~h.replace /\ IsSet(args[1].gasLimit)
    THEN Forward(method, args, result, <<>>)
    ELSE LET req == Req("eth_estimateGas", <<TxCall(args[1])[1], BlockArg("latest")>>, resp)
         IN  IF ~IsSet(resp)
             THEN Return(method, args, result,
                         ErrHijackFailed("gas limit", "failed to estimate gas", "gas limit"),
                         <<req>>)
             ELSE Forward(method,
                          [args EXCEPT ![1].gasLimit =
                              Some(ClampGas(Multiply(resp[1], h.multiplier), h.minGas, h.maxGas))],
                          result, <<req>>)

\* a conversion that takes over the common data and the call data only
convertTXCallDataOnly(tx, typ) ==
    [EmptyTx(typ) EXCEPT
        !.chainID = tx.chainID, !.nonce = tx.nonce, !.sig = tx.sig,
        !.from = tx.from, !.to = tx.to, !.gasLimit = tx.gasLimit,
        !.value = tx.value, !.input = tx.input]

(***************************************************************************)
(* convertTX: a new transaction of type typ that takes over the fragments  *)
(* both variants embed.  The source must have transaction data.            *)
(***************************************************************************)
convertTX(tx, typ) ==
    LET new == EmptyTx(typ)
    IN  [new EXCEPT
            !.chainID = tx.chainID, !.nonce = tx.nonce, !.sig = tx.sig,
            !.from = tx.from, !.to = tx.to, !.gasLimit = tx.gasLimit,
            !.value = tx.value, !.input = tx.input,
            !.gasPrice = IF HasLegacyPrice(new) /\ HasLegacyPrice(tx) THEN tx.gasPrice ELSE None,
            !.accessList = IF HasAccessListData(new) /\ HasAccessListData(tx)
                           THEN tx.accessList ELSE <<>>,
            !.maxFee = IF HasDynamicFeeData(new) /\ HasDynamicFeeData(tx) THEN tx.maxFee ELSE None,
            !.maxPrio = IF HasDynamicFeeData(new) /\ HasDynamicFeeData(tx)
                        THEN tx.maxPrio ELSE None,
            !.blobFee = IF HasBlobData(new) /\ HasBlobData(tx) THEN tx.blobFee ELSE None,
            !.blobs = IF HasBlobData(new) /\ HasBlobData(tx) THEN tx.blobs ELSE <<>>]

convertTXToLegacyPrice(tx) ==
    IF HasLegacyPrice(tx) THEN tx
    ELSE convertTX(tx, IF HasAccessListData(tx) THEN AccessListTxType ELSE LegacyTxType)

convertTXToDynamicFee(tx) ==
    IF HasDynamicFeeData(tx) THEN tx ELSE convertTX(tx, DynamicFeeTxType)

(***************************************************************************)
(* hijackLegacyGasFee.Call.  h = [kind, multiplier, minGasPrice,           *)
(* maxGasPrice, replace, allowChangeType].  resp answers eth_gasPrice.     *)
(***************************************************************************)
hijackLegacyGasFee(h, method, args, result, resp) ==
    IF method # "eth_sendTransaction" \/ Len(args) = 0
    THEN Forward(method, args, result, <<>>)
    ELSE IF ~IsTransaction(args[1])
    THEN Return(method, args, result,
                ErrHijackFailed("legacy gas price", "invalid transaction type",
                                "legacy gas price"), <<>>)
    ELSE IF h.allowChangeType /\ ~HasCallData(args[1])
    THEN Return(method, args, result, Panic("legacy gas price"), <<>>)
    ELSE LET tx == IF h.allowChangeType THEN convertTXToLegacyPrice(args[1]) ELSE args[1]
             args1 == [args EXCEPT ![1] = tx]
             req == Req("eth_gasPrice", <<>>, resp)
         IN  IF ~HasLegacyPrice(tx) THEN Forward(method, args1, result, <<>>)
             ELSE IF ~h.replace /\ IsSet(tx.gasPrice) THEN Forward(method, args1, result, <<>>)
             ELSE IF ~IsSet(resp)
             THEN Return(method, args1, result,
                         ErrHijackFailed("legacy gas price", "failed to get gas price",
                                         "legacy gas price"), <<req>>)
             ELSE Forward(method,
                          [args1 EXCEPT ![1].gasPrice =
                              Some(ClampFee(Multiply(resp[1], h.multiplier),
                                            h.minGasPrice, h.maxGasPrice))],
                          result, <<req>>)

(***************************************************************************)
(* hijackDynamicGasFee.Call.  h = [kind, gasPriceMultiplier,               *)
(* priorityFeePerGasMultiplier, minGasPrice, maxGasPrice,                  *)
(* minPriorityFeePerGas, maxPriorityFeePerGas, replace, allowChangeType].  *)
(* resp answers eth_gasPrice, resp2 answers eth_maxPriorityFeePerGas.      *)
(***************************************************************************)
hijackDynamicGasFee(h, method, args, result, resp, resp2) ==
    IF method # "eth_sendTransaction" \/ Len(args) = 0
    THEN Forward(method, args, result, <<>>)
    ELSE IF ~IsTransaction(args[1])
    THEN Return(method, args, result,
                ErrHijackFailed("dynamic gas fee", "invalid transaction type",
                                "dynamic gas fee"), <<>>)
    ELSE IF h.allowChangeType /\ ~HasCallData(args[1])
    THEN Return(method, args, result, Panic("dynamic gas fee"), <<>>)
    ELSE LET tx == IF h.allowChangeType THEN convertTXToDynamicFee(args[1]) ELSE args[1]
             args1 == [args EXCEPT ![1] = tx]
             req == Req("eth_gasPrice", <<>>, resp)
             req2 == Req("eth_maxPriorityFeePerGas", <<>>, resp2)
         IN  IF ~HasDynamicFeeData(tx) THEN Forward(method, args1, result, <<>>)
             ELSE IF ~h.replace /\ IsSet(tx.maxFee) /\ IsSet(tx.maxPrio)
             THEN Forward(method, args1, result, <<>>)
             ELSE IF ~IsSet(resp)
             THEN Return(method, args1, result,
                         ErrHijackFailed("dynamic gas fee", "failed to get gas price",
                                         "dynamic gas fee"), <<req>>)
             ELSE IF ~IsSet(resp2)
             THEN Return(method, args1, result,
                         ErrHijackFailed("dynamic gas fee", "failed to get priority fee per gas",
                                         "dynamic gas fee"), <<req, req2>>)
             ELSE LET maxFeePerGas == ClampFee(Multiply(resp[1], h.gasPriceMultiplier),
                                               h.minGasPrice, h.maxGasPrice)
                      prio == ClampFee(Multiply(resp2[1], h.priorityFeePerGasMultiplier),
                                       h.minPriorityFeePerGas, h.maxPriorityFeePerGas)
                      priorityFeePerGas == IF maxFeePerGas < prio THEN maxFeePerGas ELSE prio
                  IN  Forward(method,
                              [args1 EXCEPT ![1].maxFee = Some(maxFeePerGas),
                                            ![1].maxPrio = Some(priorityFeePerGas)],
                              result, <<req, req2>>)

(***************************************************************************)
(* Hijacker configurations (the structs of package rpc).                   *)
(***************************************************************************)
Mults == {[num |-> 1, den |-> 1], [num |-> 3, den |-> 2]}
GasBounds == {[min |-> 0, max |-> 0], [min |-> MaxVal, max |-> 0], [min |-> 0, max |-> 1]}
FeeBounds == {[min |-> None, max |-> None], [min |-> Some(MaxVal), max |-> None],
              [min |-> None, max |-> Some(0)]}

AddressHijackers ==
    {[kind |-> "address", address |-> a, replace |-> r] : a \in Addrs, r \in BOOLEAN}
ChainIDHijackers ==
    {[kind |-> "chainID", chainID |-> c, replace |-> r] : c \in NodeVals, r \in BOOLEAN}
NonceHijackers ==
    {[kind |-> "nonce", usePendingBlock |-> p, replace |-> r] : p \in BOOLEAN, r \in BOOLEAN}
GasLimitHijackers ==
    {[kind |-> "gasLimit", multiplier |-> m, minGas |-> b.min, maxGas |-> b.max, replace |-> r] :
        m \in Mults, b \in GasBounds, r \in BOOLEAN}
LegacyGasFeeHijackers ==
    {[kind |-> "legacyGasFee", multiplier |-> m, minGasPrice |-> b.min, maxGasPrice |-> b.max,
      replace |-> r, allowChangeType |-> a] :
        m \in Mults, b \in FeeBounds, r \in BOOLEAN, a \in BOOLEAN}
DynamicGasFeeHijackers ==
    {[kind |-> "dynamicGasFee", gasPriceMultiplier |-> m,
      priorityFeePerGasMultiplier |-> [num |-> 1, den |-> 1],
      minGasPrice |-> b.min, maxGasPrice |-> b.max,
      minPriorityFeePerGas |-> b.min, maxPriorityFeePerGas |-> None,
      replace |-> r, allowChangeType |-> a] :
        m \in Mults, b \in FeeBounds, r \in BOOLEAN, a \in BOOLEAN}
Keys == {Key(a, ok) : a \in Addrs, ok \in BOOLEAN}
Keyrings ==
    {<<>>} \cup {<<k>> : k \in Keys}
    \cup {<<Key(a, TRUE), Key(b, TRUE)>> : a \in Addrs, b \in Addrs}
SignHijackers == {[kind |-> "sign", keys |-> ks] : ks \in Keyrings}
SimulateHijackers ==
    {[kind |-> "simulate", decoder |-> d, recoverer |-> r] : d \in BOOLEAN, r \in BOOLEAN}

BuiltinHijackers ==
    AddressHijackers \cup ChainIDHijackers \cup NonceHijackers \cup GasLimitHijackers
    \cup LegacyGasFeeHijackers \cup DynamicGasFeeHijackers \cup SignHijackers
    \cup SimulateHijackers

(***************************************************************************)
(* Calls a program makes on the transport.                                 *)
(***************************************************************************)
OptAddr == {None} \cup {Some(a) : a \in Addrs}
OptVal == {None} \cup {Some(v) : v \in 1..MaxVal}
\* a field that is not set, or set to one value
OptSet == {None, Some(MaxVal)}

\* unsigned transactions of every variant, each optional field set or not
BaseTxs ==
    {[EmptyTx(ty) EXCEPT !.from = f, !.to = Some(1), !.input = <<1>>,
                         !.chainID = c, !.nonce = n, !.gasLimit = g,
                         !.gasPrice = IF ty \in {LegacyTxType, AccessListTxType} THEN p ELSE None,
                         !.maxFee = IF ty \in {DynamicFeeTxType, BlobTxType} THEN p ELSE None,
                         !.maxPrio = IF ty \in {DynamicFeeTxType, BlobTxType} THEN q ELSE None] :
        ty \in TxTypes, f \in OptAddr, c \in OptVal, n \in OptVal, g \in OptSet,
        p \in OptSet, q \in OptSet}

\* transactions a key has signed; the sender may have been cleared afterwards
SignedTxs ==
    LET bare == {tx \in BaseTxs : /\ ~IsSet(tx.from) /\ ~IsSet(tx.nonce) /\ ~IsSet(tx.gasLimit)
                                  /\ ~IsSet(tx.gasPrice) /\ ~IsSet(tx.maxFee)
                                  /\ ~IsSet(tx.maxPrio)}
        signed == {Sign(k, tx) : k \in Addrs, tx \in bare}
    IN  signed \cup {[tx EXCEPT !.from = None] : tx \in signed}

\* a signed transaction one field of which was changed after signing
TamperedTx == [Sign(1, EmptyTx(DynamicFeeTxType)) EXCEPT !.from = None, !.nonce = Some(1)]
\* a signed transaction whose v is no recovery id
BadVTx == [EmptyTx(DynamicFeeTxType) EXCEPT
              !.sig = Some([v |-> 5, rs |-> [signer |-> 1, hash |-> <<>>]])]

UnknownTx == EmptyTx(UnknownTxType)

TxInputs == BaseTxs \cup SignedTxs \cup {TamperedTx, BadVTx, UnknownTx}

RawInputs ==
    {EncodeRLP(tx) : tx \in SignedTxs \cup {TamperedTx, BadVTx, EmptyTx(LegacyTxType)}}
    \cup {EmptyBytes, MalformedBytes, UnknownTypeBytes}

CallArgs == {TxCall(tx)[1] : tx \in {t \in BaseTxs : ~IsSet(t.chainID) /\ ~IsSet(t.nonce)}}

DataArg == [t |-> "data", d |-> 1]

CallInput(method, args, ty) == [method |-> method, args |-> args, result |-> ResultOf(ty)]

CallInputs ==
    {CallInput("eth_sendTransaction", <<tx>>, "Hash") : tx \in TxInputs}
    \cup {CallInput("eth_sendTransaction", a, "Hash") :
            a \in {<<>>, <<OtherArg>>} \cup {<<tx, OtherArg>> : tx \in SignedTxs}}
    \cup {CallInput("eth_sendTransaction", <<tx>>, "Other") : tx \in SignedTxs}
    \cup {CallInput(m, <<raw>>, "Hash") :
            m \in {"eth_sendRawTransaction", "eth_sendPrivateTransaction"}, raw \in RawInputs}
    \cup {CallInput(m, a, "Hash") :
            m \in {"eth_sendRawTransaction", "eth_sendPrivateTransaction"},
            a \in {<<>>, <<OtherArg>>}}
    \cup {CallInput(m, <<c, BlockArg("latest")>>, ty) :
            m \in {"eth_call", "eth_estimateGas"}, c \in CallArgs, ty \in {"Bytes", "Number"}}
    \cup {CallInput(m, a, "Bytes") :
            m \in {"eth_call", "eth_estimateGas"}, a \in {<<>>, <<OtherArg, BlockArg("latest")>>}}
    \cup {CallInput("eth_accounts", <<>>, ty) : ty \in {"Addresses", "Other"}}
    \cup {CallInput("eth_sign", a, ty) :
            a \in {<<AddressArg(x), DataArg>> : x \in Addrs}
                  \cup {<<AddressArg(1), MalformedBytes>>, <<OtherArg, DataArg>>,
                        <<AddressArg(1)>>},
            ty \in {"Signature", "Other"}}
    \cup {CallInput("eth_signTransaction", <<tx>>, ty) :
            tx \in SignedTxs \cup {EmptyTx(LegacyTxType), UnknownTx},
            ty \in {"ByteSlice", "Other"}}
    \cup {CallInput("eth_signTransaction", a, "ByteSlice") : a \in {<<>>, <<OtherArg>>}}
    \cup {CallInput("eth_blockNumber", <<>>, "Number")}

(***************************************************************************)
(* State.                                                                  *)
(*   callFunc  the chain Hijack.Use has folded, outermost stage first      *)
(*   chain     the stages of the call in progress, outermost first         *)
(*   pos       the stage of chain that runs next; Len(chain)+1 is defCall  *)
(*   pc        "idle", "run" (a call is in progress) or "done"             *)
(*   method, args, result   what the running stage was called with         *)
(*   err       what the call returned to the caller                        *)
(*   wire      the requests the underlying transport received during the   *)
(*             call, in order                                              *)
(*   hist      what every stage of the call received and did, in order     *)
(*   regs      the hijackers handed to Use so far, in order                *)
(*   ctxs      the contexts WithHijackers has derived: parent context      *)
(*             (0 is the background context), the hijackers attached, and  *)
(*             the []Hijacker slice stored in the context                  *)
(*   arrays    the backing arrays of those slices; an array's length is    *)
(*             its capacity                                                *)
(*   callCtx   the context the call in progress was made with              *)
(*   fetched   a chain-ID stage of an earlier call had its eth_chainId      *)
(*             request answered by the node                                *)
(*   chainIDVar  the variable chainID that the closure of one chain-ID     *)
(*             hijacker captured, when calls run concurrently              *)
(*   calls     the concurrent calls through that closure: where each is in *)
(*             the stage and what its transaction's ChainID points to      *)
(*   subject   a transaction a program holds outside any call              *)
(*   applied   the function the program last applied to it                 *)
(*   before    the transaction as it was before that                       *)
(*   yield     what the function returned                                  *)
(*   heap      the mutable cells (pointed-to values, backing arrays) the   *)
(*             transaction and the values made from it refer to            *)
(*   sub       a subscription made by subscribe: its context, the raw      *)
(*             channel, the background task and the outbound channel       *)
(***************************************************************************)
VARIABLES callFunc, chain, pos, pc, method, args, result, err, wire, hist,
          regs, ctxs, arrays, callCtx, fetched, chainIDVar, calls,
          subject, applied, before, yield, heap, sub

vars == <<callFunc, chain, pos, pc, method, args, result, err, wire, hist,
          regs, ctxs, arrays, callCtx, fetched, chainIDVar, calls,
          subject, applied, before, yield, heap, sub>>

\* a transaction a program holds and what it last did with it
values == <<subject, applied, before, yield, heap>>

\* what only Use, WithHijackers and the start of a call change
\* the state of the concurrent calls and of the subscription
inflight == <<chainIDVar, calls, sub>>

\* subscribe has not been called
NoSub == [pc |-> "none"]

setup == <<regs, ctxs, arrays, callCtx, fetched, inflight, values>>

\* the program holds no transaction
NoValues ==
    /\ subject = None
    /\ applied = ""
    /\ before = None
    /\ yield = None
    /\ heap = <<>>

\* no call is in progress
NoCall ==
    /\ chain = <<>>
    /\ pos = 0
    /\ pc = "idle"
    /\ method = ""
    /\ args = <<>>
    /\ result = ResultOf("Other")
    /\ err = NoErr
    /\ wire = <<>>
    /\ hist = <<>>

Idle(cf) ==
    /\ callFunc = cf
    /\ NoCall
    /\ regs = <<>>
    /\ ctxs = <<>>
    /\ arrays = <<>>
    /\ callCtx = 0
    /\ fetched = FALSE
    /\ chainIDVar = 0
    /\ calls = <<>>
    /\ sub = NoSub
    /\ NoValues

\* a Hijack transport that wraps a node with one built-in hijacker
Init == \E h \in BuiltinHijackers : Idle(<<h>>)

\* Hijack.Call without per-call hijackers: the call enters the folded chain
StartCall ==
    /\ pc = "idle"
    /\ \E c \in CallInputs :
        /\ method' = c.method
        /\ args' = c.args
        /\ result' = c.result
    /\ chain' = callFunc
    /\ pos' = 1
    /\ pc' = "run"
    /\ err' = NoErr
    /\ wire' = <<>>
    /\ hist' = <<>>
    /\ UNCHANGED <<callFunc, setup>>

AtStage(kind) == pc = "run" /\ pos <= Len(chain) /\ chain[pos].kind = kind

Sent(h, reqs) ==
    [i \in 1..Len(reqs) |->
        [method |-> reqs[i].method, args |-> reqs[i].args, resp |-> reqs[i].resp,
         by |-> h.kind]]

\* the running stage did out: it returned, or it called the next stage
Step(out) ==
    /\ hist' = Append(hist, [stage |-> chain[pos], pos |-> pos, method |-> method,
                             args |-> args, result |-> result, out |-> out])
    /\ wire' = wire \o Sent(chain[pos], out.reqs)
    /\ method' = out.method
    /\ args' = out.args
    /\ result' = out.result
    /\ err' = out.err
    /\ pos' = IF out.next THEN pos + 1 ELSE pos
    /\ pc' = IF out.next THEN "run" ELSE "done"
    /\ UNCHANGED <<chain, setup>>

StageAddress ==
    /\ AtStage("address")
    /\ Step(hijackAddress(chain[pos], method, args, result))
    /\ UNCHANGED callFunc

\* the stage of callFunc a position of chain is, 0 for a per-call stage
Slot(p) == IF p > Len(chain) - Len(callFunc) THEN p - (Len(chain) - Len(callFunc)) ELSE 0

StageChainID ==
    /\ AtStage("chainID")
    /\ \E resp \in NodeResp :
        /\ Step(hijackChainID(chain[pos], method, args, result, resp))
        /\ callFunc' = IF Slot(pos) = 0 THEN callFunc
                       ELSE [callFunc EXCEPT ![Slot(pos)].chainID =
                                chainIDAfter(chain[pos], method, args, resp)]

StageNonce ==
    /\ AtStage("nonce")
    /\ \E resp \in NodeResp : Step(hijackNonce(chain[pos], method, args, result, resp))
    /\ UNCHANGED callFunc

StageGasLimit ==
    /\ AtStage("gasLimit")
    /\ \E resp \in NodeResp : Step(hijackGasLimit(chain[pos], method, args, result, resp))
    /\ UNCHANGED callFunc

StageLegacyGasFee ==
    /\ AtStage("legacyGasFee")
    /\ \E resp \in NodeResp : Step(hijackLegacyGasFee(chain[pos], method, args, result, resp))
    /\ UNCHANGED callFunc

StageDynamicGasFee ==
    /\ AtStage("dynamicGasFee")
    /\ \E resp \in NodeResp, resp2 \in NodeResp :
        Step(hijackDynamicGasFee(chain[pos], method, args, result, resp, resp2))
    /\ UNCHANGED callFunc

StageSign ==
    /\ AtStage("sign")
    /\ Step(hijackSign(chain[pos], method, args, result))
    /\ UNCHANGED callFunc

StageSimulate ==
    /\ AtStage("simulate")
    /\ \E resp \in NodeResp : Step(hijackSimulate(chain[pos], method, args, result, resp))
    /\ UNCHANGED callFunc

\* defCall: the innermost stage hands the call to the underlying transport
defCall ==
    /\ pc = "run"
    /\ pos = Len(chain) + 1
    /\ \E resp \in NodeResp :
        /\ wire' = Append(wire, [method |-> method, args |-> args, resp |-> resp,
                                 by |-> "defCall"])
        /\ err' = IF IsSet(resp) THEN NoErr ELSE PlainErr("transport error", "transport")
        /\ result' = [result EXCEPT !.val = resp]
    /\ pc' = "done"
    /\ UNCHANGED <<callFunc, chain, pos, method, args, hist, setup>>

\* the call is over for its caller: nothing of it is kept
Returned ==
    /\ pc = "done"
    /\ chain' = <<>>
    /\ pos' = 0
    /\ pc' = "idle"
    /\ method' = ""
    /\ args' = <<>>
    /\ result' = ResultOf("Other")
    /\ err' = NoErr
    /\ wire' = <<>>
    /\ hist' = <<>>
    /\ callCtx' = 0
    /\ UNCHANGED <<callFunc, regs, ctxs, arrays, inflight, values>>

\* the caller has the outcome; the transport is ready for the next call
CallReturns == Returned /\ UNCHANGED fetched

Next ==
    \/ StartCall
    \/ CallReturns
    \/ StageAddress
    \/ StageChainID
    \/ StageNonce
    \/ StageGasLimit
    \/ StageLegacyGasFee
    \/ StageDynamicGasFee
    \/ StageSign
    \/ StageSimulate
    \/ defCall

Spec == Init /\ [][Next]_vars

(***************************************************************************)
(* The Hijack transport with hijackers of the caller's own.  A hijacker    *)
(* is [kind, id, call]: call tells what its Call() yields: "nil" (the      *)
(* Call method is not modified), a stage that calls next ("pass"), or a    *)
(* stage that returns an error without calling next ("abort").             *)
(***************************************************************************)
Behaviours == {"pass", "abort", "nil"}
Custom(id, call) == [kind |-> "custom", id |-> id, call |-> call]

\* the stages a list of hijackers contributes: those whose Call() is not nil
RECURSIVE Stages(_)
Stages(hs) ==
    IF hs = <<>> THEN <<>>
    ELSE IF Head(hs).kind = "custom" /\ Head(hs).call = "nil" THEN Stages(Tail(hs))
    ELSE <<Head(hs)>> \o Stages(Tail(hs))

(***************************************************************************)
(* Hijack.Use folds callFunc = call(callFunc) for every hijacker in turn,  *)
(* so each hijacker wraps the chain built before it.                       *)
(***************************************************************************)
\* a fold that puts each hijacker behind the chain built before it
UseFoldBehind(cf, hs) == cf \o Stages(hs)

RECURSIVE UseFold(_, _)
UseFold(cf, hs) ==
    IF hs = <<>> THEN cf
    ELSE UseFold(Stages(<<Head(hs)>>) \o cf, Tail(hs))

\* the hijackers of one Use call: ids continue the registration count
UseArgs ==
    {<<Custom(Len(regs) + 1, b)>> : b \in Behaviours}
    \cup {<<Custom(Len(regs) + 1, b1), Custom(Len(regs) + 2, b2)>> :
            b1 \in Behaviours, b2 \in Behaviours}

Use ==
    /\ pc = "idle"
    /\ \E hs \in UseArgs :
        /\ Len(regs) + Len(hs) <= MaxUse
        /\ callFunc' = UseFold(callFunc, hs)
        /\ regs' = regs \o hs
    /\ UNCHANGED <<chain, pos, pc, method, args, result, err, wire, hist,
                   ctxs, arrays, callCtx, fetched, inflight, values>>

(***************************************************************************)
(* Slices of hijackers.  A slice is [arr, len]: arr = 0 is the nil slice.  *)
(***************************************************************************)
NilSlice == [arr |-> 0, len |-> 0]
NoHijacker == [kind |-> "none"]

Cap(sl) == IF sl.arr = 0 THEN 0 ELSE Len(arrays[sl.arr])
Elems(sl) == IF sl.arr = 0 THEN <<>> ELSE SubSeq(arrays[sl.arr], 1, sl.len)

\* the capacity append allocates when the old one does not suffice (the gc
\* runtime's rule for small slices of two-word elements)
GrowCap(oldCap, needed) == IF needed > 2 * oldCap THEN needed ELSE 2 * oldCap

\* an append that always copies into an array of its own: [slice, arrays]
AppendCopy(sl, hs) ==
    [slice |-> [arr |-> Len(arrays) + 1, len |-> sl.len + Len(hs)],
     arrays |-> Append(arrays, Elems(sl) \o hs)]

\* append(sl, hs...): [slice, arrays]
AppendSlice(sl, hs) ==
    LET needed == sl.len + Len(hs)
    IN  IF Len(hs) = 0 THEN [slice |-> sl, arrays |-> arrays]
        ELSE IF needed <= Cap(sl)
        THEN [slice |-> [arr |-> sl.arr, len |-> needed],
              arrays |-> [arrays EXCEPT ![sl.arr] =
                            [i \in 1..Len(@) |->
                                IF i > sl.len /\ i <= needed THEN hs[i - sl.len] ELSE @[i]]]]
        ELSE [slice |-> [arr |-> Len(arrays) + 1, len |-> needed],
              arrays |-> Append(arrays,
                            [i \in 1..GrowCap(Cap(sl), needed) |->
                                IF i <= sl.len THEN Elems(sl)[i]
                                ELSE IF i <= needed THEN hs[i - sl.len]
                                ELSE NoHijacker])]

\* getHijackers(ctx)
getHijackers(c) == IF c = 0 THEN NilSlice ELSE ctxs[c].slice

\* the hijackers one WithHijackers call attaches: ids tell the context
AttachArgs ==
    {[i \in 1..n |-> Custom(10 * (Len(ctxs) + 1) + i, "pass")] : n \in 1..MaxAttach}

\* WithHijackers(ctx, hs...): a new context that holds append(getHijackers(ctx), hs...)
WithHijackers ==
    /\ pc = "idle"
    /\ Len(ctxs) < MaxCtx
    /\ \E p \in 0..Len(ctxs), hs \in AttachArgs :
        LET r == AppendSlice(getHijackers(p), hs)
        IN  /\ ctxs' = Append(ctxs, [parent |-> p, attached |-> hs, slice |-> r.slice])
            /\ arrays' = r.arrays
    /\ UNCHANGED <<callFunc, chain, pos, pc, method, args, result, err, wire, hist,
                   regs, callCtx, fetched, inflight, values>>

\* Hijack.Call(ctx, ...): the context's hijackers wrap callFunc, hs[0] outermost
Call ==
    /\ pc = "idle"
    /\ \E c \in 0..Len(ctxs) :
        /\ callCtx' = c
        /\ chain' = Stages(Elems(getHijackers(c))) \o callFunc
    /\ method' = "eth_blockNumber"
    /\ args' = <<>>
    /\ result' = ResultOf("Number")
    /\ pos' = 1
    /\ pc' = "run"
    /\ err' = NoErr
    /\ wire' = <<>>
    /\ hist' = <<>>
    /\ UNCHANGED <<callFunc, regs, ctxs, arrays, fetched, inflight, values>>

\* the stage of a hijacker of the caller's own
hijackCustom(h, m, a, r) ==
    IF h.call = "abort"
    THEN Return(m, a, r, PlainErr("aborted", "custom"), <<>>)
    ELSE Forward(m, a, r, <<>>)

StageCustom ==
    /\ AtStage("custom")
    /\ Step(hijackCustom(chain[pos], method, args, result))
    /\ UNCHANGED callFunc

\* transport.NewHijacker(t): no hijacker registered, no context derived
InitHijack == Idle(<<>>)

\* permanent hijackers only
NextUse ==
    \/ Use
    \/ Call
    \/ StageCustom
    \/ defCall
    \/ CallReturns

SpecUse == InitHijack /\ [][NextUse]_vars

\* permanent and per-call hijackers
NextHijack ==
    \/ Use
    \/ WithHijackers
    \/ Call
    \/ StageCustom
    \/ defCall
    \/ CallReturns

SpecHijack == InitHijack /\ [][NextHijack]_vars

(***************************************************************************)
(* The client options.  An option is [opt, h]: the option's constructor    *)
(* and the hijacker it adds (WithTransport adds none).                     *)
(***************************************************************************)
\* order numbers that follow the documented stage order: address, chain ID,
\* nonce, gas fee, gas limit, sign, simulate
OrderAsDocumented(o) ==
    CASE o.opt = "WithTransport" -> 0
      [] o.opt = "WithSimulate" -> 200
      [] o.opt = "WithKeys" -> 300
      [] o.opt = "WithGasLimit" -> 400
      [] o.opt = "WithLegacyGasFee" -> 500
      [] o.opt = "WithDynamicGasFee" -> 600
      [] o.opt = "WithNonce" -> 700
      [] o.opt = "WithChainID" -> 800
      [] o.opt = "WithDefaultAddress" -> 900

\* option.Order(): the order number each constructor gives its option
Order(o) ==
    CASE o.opt = "WithTransport" -> 0
      [] o.opt = "WithKeys" -> 200
      [] o.opt = "WithSimulate" -> 300
      [] o.opt = "WithNonce" -> 400
      [] o.opt = "WithLegacyGasFee" -> 500
      [] o.opt = "WithDynamicGasFee" -> 600
      [] o.opt = "WithGasLimit" -> 700
      [] o.opt = "WithDefaultAddress" -> 800
      [] o.opt = "WithChainID" -> 900
      [] o.opt = "WithTransactionDecoder" -> 0
      [] o.opt = "WithPostHijackers" -> 100
      [] o.opt = "WithPreHijackers" -> 1000

WithTransport == [opt |-> "WithTransport"]
WithKeys(keys) == [opt |-> "WithKeys", h |-> [kind |-> "sign", keys |-> keys]]
WithSimulate ==
    [opt |-> "WithSimulate", h |-> [kind |-> "simulate", decoder |-> FALSE, recoverer |-> FALSE]]
WithNonce(o) ==
    [opt |-> "WithNonce",
     h |-> [kind |-> "nonce", usePendingBlock |-> o.UsePendingBlock, replace |-> o.Replace]]
WithLegacyGasFee(o) ==
    [opt |-> "WithLegacyGasFee",
     h |-> [kind |-> "legacyGasFee", multiplier |-> o.Multiplier,
            minGasPrice |-> o.MinGasPrice, maxGasPrice |-> o.MaxGasPrice,
            replace |-> o.Replace, allowChangeType |-> o.AllowChangeType]]
WithDynamicGasFee(o) ==
    [opt |-> "WithDynamicGasFee",
     h |-> [kind |-> "dynamicGasFee", gasPriceMultiplier |-> o.GasPriceMultiplier,
            priorityFeePerGasMultiplier |-> o.PriorityFeePerGasMultiplier,
            minGasPrice |-> o.MinGasPrice, maxGasPrice |-> o.MaxGasPrice,
            minPriorityFeePerGas |-> o.MinPriorityFeePerGas,
            maxPriorityFeePerGas |-> o.MaxPriorityFeePerGas,
            replace |-> o.Replace, allowChangeType |-> o.AllowChangeType]]
WithGasLimit(o) ==
    [opt |-> "WithGasLimit",
     h |-> [kind |-> "gasLimit", multiplier |-> o.Multiplier, minGas |-> o.MinGas,
            maxGas |-> o.MaxGas, replace |-> o.Replace]]
WithDefaultAddress(o) ==
    [opt |-> "WithDefaultAddress",
     h |-> [kind |-> "address", address |-> o.Address, replace |-> o.Replace]]
WithChainID(o) ==
    [opt |-> "WithChainID",
     h |-> [kind |-> "chainID", chainID |-> o.ChainID, replace |-> o.Replace]]

\* an ordering step that leaves the options as they were passed
InsertLast(o, sorted) == Append(sorted, o)

\* sort.Slice by Order(): insert o before the first option of a greater order
RECURSIVE InsertByOrder(_, _)
InsertByOrder(o, sorted) ==
    IF sorted = <<>> THEN <<o>>
    ELSE IF Order(o) < Order(Head(sorted)) THEN <<o>> \o sorted
    ELSE <<Head(sorted)>> \o InsertByOrder(o, Tail(sorted))

RECURSIVE SortByOrder(_)
SortByOrder(opts) ==
    IF opts = <<>> THEN <<>>
    ELSE InsertByOrder(opts[Len(opts)], SortByOrder(SubSeq(opts, 1, Len(opts) - 1)))

\* addHijacker for each option in turn: the callFunc of the client's transport
RECURSIVE ApplyAll(_, _)
ApplyAll(cf, opts) ==
    IF opts = <<>> THEN cf
    ELSE IF Head(opts).opt = "WithTransport" THEN ApplyAll(cf, Tail(opts))
    ELSE ApplyAll(UseFold(cf, <<Head(opts).h>>), Tail(opts))

\* applyOptions: sort the options by order, then apply each
applyOptions(opts) == ApplyAll(<<>>, SortByOrder(opts))

\* the option values the model passes to the constructors
One == [num |-> 1, den |-> 1]
Option(name, a, k, c) ==
    CASE name = "WithTransport" -> WithTransport
      [] name = "WithKeys" -> WithKeys(<<Key(k, TRUE)>>)
      [] name = "WithSimulate" -> WithSimulate
      [] name = "WithNonce" -> WithNonce([UsePendingBlock |-> FALSE, Replace |-> FALSE])
      [] name = "WithLegacyGasFee" ->
            WithLegacyGasFee([Multiplier |-> One, MinGasPrice |-> None,
                              MaxGasPrice |-> None, Replace |-> FALSE,
                              AllowChangeType |-> FALSE])
      [] name = "WithDynamicGasFee" ->
            WithDynamicGasFee([GasPriceMultiplier |-> One,
                               PriorityFeePerGasMultiplier |-> One,
                               MinGasPrice |-> None, MaxGasPrice |-> None,
                               MinPriorityFeePerGas |-> None,
                               MaxPriorityFeePerGas |-> None,
                               Replace |-> FALSE, AllowChangeType |-> FALSE])
      [] name = "WithGasLimit" ->
            WithGasLimit([Multiplier |-> One, MinGas |-> 0, MaxGas |-> 0,
                          Replace |-> FALSE])
      [] name = "WithDefaultAddress" ->
            WithDefaultAddress([Address |-> a, Replace |-> FALSE])
      [] name = "WithChainID" -> WithChainID([ChainID |-> c, Replace |-> FALSE])

HijackerOptionNames ==
    {"WithKeys", "WithSimulate", "WithNonce", "WithLegacyGasFee",
     "WithDynamicGasFee", "WithGasLimit", "WithDefaultAddress", "WithChainID"}

\* the lists of at most n different members of S, in every order
RECURSIVE Arrangements(_, _)
Arrangements(S, n) ==
    IF n = 0 THEN {<<>>}
    ELSE {<<>>} \cup UNION {{<<x>> \o t : t \in Arrangements(S \ {x}, n - 1)} : x \in S}

\* the option lists passed to NewClient: WithTransport, then at most MaxOpts
\* hijacker options in any order
OptionLists ==
    {<<"WithTransport">> \o l : l \in Arrangements(HijackerOptionNames, MaxOpts)}

\* NewClient(opts...): the client's transport is the Hijack the options built.
\* The client holds the key of address 1; its default address is that address
\* or another one; its chain ID is left to the node (0) or configured.
InitClient ==
    \E l \in OptionLists, a \in {1, 2}, c \in {0, 1} :
        Idle(applyOptions([i \in 1..Len(l) |-> Option(l[i], a, 1, c)]))

\* transactions the client is asked to send: only to and input are set, and
\* possibly from
ClientTxs ==
    {tx \in BaseTxs : /\ ~IsSet(tx.chainID) /\ ~IsSet(tx.nonce) /\ ~IsSet(tx.gasLimit)
                      /\ ~IsSet(tx.gasPrice) /\ ~IsSet(tx.maxFee) /\ ~IsSet(tx.maxPrio)}

\* MethodsCommon.SendTransaction(ctx, tx) on the client
SendTransaction ==
    /\ pc = "idle"
    /\ \E tx \in ClientTxs : args' = <<tx>>
    /\ method' = "eth_sendTransaction"
    /\ result' = ResultOf("Hash")
    /\ chain' = callFunc
    /\ pos' = 1
    /\ pc' = "run"
    /\ err' = NoErr
    /\ wire' = <<>>
    /\ hist' = <<>>
    /\ UNCHANGED <<callFunc, setup>>

NextClient ==
    \/ SendTransaction
    \/ CallReturns
    \/ StageAddress
    \/ StageChainID
    \/ StageNonce
    \/ StageGasLimit
    \/ StageLegacyGasFee
    \/ StageDynamicGasFee
    \/ StageSign
    \/ StageSimulate
    \/ defCall

SpecClient == InitClient /\ [][NextClient]_vars

(***************************************************************************)
(* A client with the address, gas-limit and gas-fee hijackers: NewClient   *)
(* with WithTransport, WithDefaultAddress, WithGasLimit and one or both of *)
(* WithLegacyGasFee and WithDynamicGasFee in any order; the gas-fee        *)
(* options may allow the transaction type to change.                       *)
(***************************************************************************)
EstimateOptionLists ==
    {<<"WithTransport">> \o l :
        l \in {a \in Arrangements({"WithDefaultAddress", "WithGasLimit",
                                   "WithLegacyGasFee", "WithDynamicGasFee"}, 4) :
                  /\ \E i \in 1..Len(a) : a[i] = "WithDefaultAddress"
                  /\ \E i \in 1..Len(a) : a[i] = "WithGasLimit"
                  /\ \E i \in 1..Len(a) : a[i] \in {"WithLegacyGasFee", "WithDynamicGasFee"}}}

\* the option a name stands for; ct is the AllowChangeType of the gas-fee options
EstimateOption(name, a, ct) ==
    LET o == Option(name, a, 1, 0)
    IN  IF name \in {"WithLegacyGasFee", "WithDynamicGasFee"}
        THEN [o EXCEPT !.h.allowChangeType = ct]
        ELSE o

InitEstimate ==
    \E l \in EstimateOptionLists, a \in Addrs, ct \in BOOLEAN :
        Idle(applyOptions([i \in 1..Len(l) |-> EstimateOption(l[i], a, ct)]))

\* transactions such a client is asked to send: chain ID and nonce are left
\* alone, every other field is set or not
EstimateTxs == {tx \in BaseTxs : ~IsSet(tx.chainID) /\ ~IsSet(tx.nonce)}

\* MethodsCommon.SendTransaction(ctx, tx) on that client
SendForEstimate ==
    /\ pc = "idle"
    /\ \E tx \in EstimateTxs : args' = <<tx>>
    /\ method' = "eth_sendTransaction"
    /\ result' = ResultOf("Hash")
    /\ chain' = callFunc
    /\ pos' = 1
    /\ pc' = "run"
    /\ err' = NoErr
    /\ wire' = <<>>
    /\ hist' = <<>>
    /\ UNCHANGED <<callFunc, setup>>

NextEstimate ==
    \/ SendForEstimate
    \/ CallReturns
    \/ StageAddress
    \/ StageGasLimit
    \/ StageLegacyGasFee
    \/ StageDynamicGasFee
    \/ defCall

SpecEstimate == InitEstimate /\ [][NextEstimate]_vars

(***************************************************************************)
(* One chain-ID hijacker instance that fetches the chain ID (chainID = 0), *)
(* registered permanently with NewHijacker(t, h) or attached to a context  *)
(* with WithHijackers(context.Background(), h), and a sequence of          *)
(* eth_sendTransaction calls through it.                                   *)
(***************************************************************************)
FetchingChainID(r) == [kind |-> "chainID", chainID |-> 0, replace |-> r]

InitChainID ==
    \E r \in BOOLEAN :
        \/ Idle(<<FetchingChainID(r)>>)
        \/ /\ callFunc = <<>>
           /\ NoCall
           /\ regs = <<>>
           /\ ctxs = <<[parent |-> 0, attached |-> <<FetchingChainID(r)>>,
                        slice |-> [arr |-> 1, len |-> 1]]>>
           /\ arrays = <<<<FetchingChainID(r)>>>>
           /\ callCtx = 0
           /\ fetched = FALSE
           /\ chainIDVar = 0
           /\ calls = <<>>
           /\ sub = NoSub
           /\ NoValues

\* the transactions sent: the chain ID is set or not
ChainTxs ==
    {tx \in BaseTxs : /\ ~IsSet(tx.from) /\ ~IsSet(tx.nonce) /\ ~IsSet(tx.gasLimit)
                      /\ ~IsSet(tx.gasPrice) /\ ~IsSet(tx.maxFee) /\ ~IsSet(tx.maxPrio)}

\* Hijack.Call(ctx, &hash, "eth_sendTransaction", tx): call() of every
\* hijacker of the context is invoked anew, so each call gets stages of its
\* own in front of callFunc
SendWith ==
    /\ pc = "idle"
    /\ \E c \in 0..Len(ctxs) :
        /\ callCtx' = c
        /\ chain' = Stages(Elems(getHijackers(c))) \o callFunc
    /\ \E tx \in ChainTxs : args' = <<tx>>
    /\ method' = "eth_sendTransaction"
    /\ result' = ResultOf("Hash")
    /\ pos' = 1
    /\ pc' = "run"
    /\ err' = NoErr
    /\ wire' = <<>>
    /\ hist' = <<>>
    /\ UNCHANGED <<callFunc, regs, ctxs, arrays, fetched, inflight, values>>

\* the call returns; the history keeps whether the node answered eth_chainId
FetchNoted ==
    /\ Returned
    /\ fetched' = (fetched \/ \E j \in 1..Len(wire) :
                                 wire[j].by = "chainID" /\ IsSet(wire[j].resp))

NextChainID ==
    \/ SendWith
    \/ StageChainID
    \/ defCall
    \/ FetchNoted

SpecChainID == InitChainID /\ [][NextChainID]_vars

(***************************************************************************)
(* Concurrent eth_sendTransaction calls through one permanently registered *)
(* chain-ID hijacker.  Every call runs the same closure, whose captured    *)
(* variable chainID (chainIDVar) is read and written without               *)
(* synchronisation; a step is one access to it.  A call is                 *)
(*   at        where the call is in hijackChainID.Call                     *)
(*   held      what txd.ChainID points to: nothing ("nil"), a value of the *)
(*             caller's ("own", val) or the captured variable ("var")      *)
(*   seen      the non-zero value the call read from the variable          *)
(*   reported  the node's answer to the call's own eth_chainId request     *)
(* Each call sends a transaction of its own.                               *)
(***************************************************************************)
sequential == <<callFunc, chain, pos, pc, method, args, result, err, wire, hist,
                regs, ctxs, arrays, callCtx, fetched, values, sub>>

\* NewHijacker(t, h): Use invokes h.Call()(next) once, chainID := c.chainID
InitRace ==
    \E h \in ChainIDHijackers :
        /\ callFunc = <<h>>
        /\ NoCall
        /\ regs = <<>> /\ ctxs = <<>> /\ arrays = <<>> /\ callCtx = 0
        /\ fetched = FALSE
        /\ chainIDVar = h.chainID
        /\ calls = <<>>
        /\ sub = NoSub
        /\ NoValues

NilPtr == [kind |-> "nil", val |-> 0]
OwnPtr(v) == [kind |-> "own", val |-> v]
VarPtr == [kind |-> "var", val |-> 0]

\* *txd.ChainID of a call's transaction, None for a nil pointer
Held(c) ==
    CASE c.held.kind = "nil" -> None
      [] c.held.kind = "own" -> Some(c.held.val)
      [] c.held.kind = "var" -> Some(chainIDVar)

\* a caller starts Hijack.Call(ctx, &hash, "eth_sendTransaction", tx)
BeginCall ==
    /\ Len(calls) < MaxCalls
    /\ \E p \in {NilPtr} \cup {OwnPtr(v) : v \in 1..MaxVal} :
        calls' = Append(calls, [at |-> "check", held |-> p, seen |-> 0,
                                reported |-> None, failed |-> FALSE])
    /\ UNCHANGED <<chainIDVar, sequential>>

\* if !c.replace && txd.ChainID != nil { return next(...) }
CheckSet(i) ==
    /\ calls[i].at = "check"
    /\ calls' = [calls EXCEPT ![i].at =
                    IF ~callFunc[1].replace /\ calls[i].held.kind # "nil"
                    THEN "next" ELSE "test"]
    /\ UNCHANGED <<chainIDVar, sequential>>

\* if chainID == 0: the read of the captured variable
TestVar(i) ==
    /\ calls[i].at = "test"
    /\ calls' = [calls EXCEPT ![i].at = IF chainIDVar = 0 THEN "fetch" ELSE "store",
                              ![i].seen = chainIDVar]
    /\ UNCHANGED <<chainIDVar, sequential>>

\* chainID, err = ChainID(ctx): the node answers and the variable is written,
\* with 0 when the request failed
FetchVar(i) ==
    /\ calls[i].at = "fetch"
    /\ \E resp \in NodeResp :
        /\ chainIDVar' = OrZero(resp)
        /\ calls' = [calls EXCEPT ![i].at = IF IsSet(resp) THEN "store" ELSE "returned",
                                  ![i].reported = resp,
                                  ![i].failed = ~IsSet(resp)]
    /\ UNCHANGED sequential

\* txd.ChainID = &chainID; return next(...)
StoreVar(i) ==
    /\ calls[i].at = "store"
    /\ calls' = [calls EXCEPT ![i].at = "next", ![i].held = VarPtr]
    /\ UNCHANGED <<chainIDVar, sequential>>

\* the later stages and the transport have the transaction; the call returns
Finish(i) ==
    /\ calls[i].at = "next"
    /\ calls' = [calls EXCEPT ![i].at = "returned"]
    /\ UNCHANGED <<chainIDVar, sequential>>

NextRace ==
    \/ BeginCall
    \/ \E i \in 1..Len(calls) : CheckSet(i)
    \/ \E i \in 1..Len(calls) : TestVar(i)
    \/ \E i \in 1..Len(calls) : FetchVar(i)
    \/ \E i \in 1..Len(calls) : StoreVar(i)
    \/ \E i \in 1..Len(calls) : Finish(i)

SpecRace == InitRace /\ [][NextRace]_vars

(***************************************************************************)
(* Functions a program applies to a transaction it holds, outside any      *)
(* call: the conversions of the gas-fee hijackers, the codec, Sign,        *)
(* Recover and Call().  The transport is not involved.                     *)
(***************************************************************************)
pipeline == <<callFunc, chain, pos, pc, method, args, result, err, wire, hist,
              regs, ctxs, arrays, callCtx, fetched, chainIDVar, calls, sub>>

\* no client, no call
Quiet ==
    /\ callFunc = <<>>
    /\ NoCall
    /\ regs = <<>> /\ ctxs = <<>> /\ arrays = <<>> /\ callCtx = 0
    /\ fetched = FALSE
    /\ chainIDVar = 0
    /\ calls = <<>>
    /\ sub = NoSub

\* the program holds transaction tx and has not yet done anything with it
Hold(tx) ==
    /\ Quiet
    /\ subject = tx
    /\ applied = ""
    /\ before = tx
    /\ yield = None
    /\ heap = <<>>

\* the program applied function f to its transaction: now is the transaction
\* it holds afterwards, out is what f returned
Apply(f, now, out) ==
    /\ applied' = f
    /\ before' = subject
    /\ subject' = now
    /\ yield' = out
    /\ UNCHANGED <<heap, pipeline>>

AccessTuple(a, keys) == [address |-> a, storageKeys |-> keys]
AccessLists == {<<>>, <<AccessTuple(1, <<1>>)>>}
BlobLists ==
    {<<>>, <<Blob(1, None)>>, <<Blob(1, Some(1))>>, <<Blob(ZeroHash, Some(1))>>,
     <<Blob(1, Some(1)), Blob(1, None)>>}

\* transactions of every variant with the fragments of the variant filled
\* in or not; chain IDs are drawn from cs
FragmentTxs(cs) ==
    {[EmptyTx(ty) EXCEPT
        !.from = f, !.to = Some(1), !.input = <<1>>, !.value = g,
        !.chainID = c, !.nonce = g, !.gasLimit = g,
        !.gasPrice = IF ty \in {LegacyTxType, AccessListTxType} THEN p ELSE None,
        !.maxFee = IF ty \in {DynamicFeeTxType, BlobTxType} THEN p ELSE None,
        !.maxPrio = IF ty \in {DynamicFeeTxType, BlobTxType} THEN p ELSE None,
        !.accessList = IF ty # LegacyTxType THEN al ELSE <<>>,
        !.blobFee = IF ty = BlobTxType THEN p ELSE None,
        !.blobs = IF ty = BlobTxType THEN bl ELSE <<>>] :
        ty \in TxTypes, f \in {None, Some(1)}, c \in cs, g \in OptSet, p \in OptSet,
        al \in AccessLists, bl \in BlobLists}

(***************************************************************************)
(* The conversions of the gas-fee hijackers applied to a transaction that  *)
(* may be signed.                                                          *)
(***************************************************************************)
ConvertTxs ==
    LET txs == FragmentTxs(OptSet)
    IN  txs \cup {Sign(1, tx) : tx \in txs}

InitConvert == \E tx \in ConvertTxs : Hold(tx)

ToLegacyPrice == Apply("convertTXToLegacyPrice", convertTXToLegacyPrice(subject), None)

ToDynamicFee == Apply("convertTXToDynamicFee", convertTXToDynamicFee(subject), None)

NextConvert == ToLegacyPrice \/ ToDynamicFee

SpecConvert == InitConvert /\ [][NextConvert]_vars

(***************************************************************************)
(* The codec and txsign.Sign applied to a transaction: the program signs   *)
(* the transaction, sets its chain ID, encodes it and decodes the bytes.   *)
(***************************************************************************)
\* the largest power of two a uint64 holds
HighBit == 2 ^ (UintBits - 1)
ChainIDs == {None, Some(1), Some(HighBit)}

CodecTxs == FragmentTxs(ChainIDs)

InitCodec == \E tx \in CodecTxs : Hold(tx)

SignTx(key) ==
    /\ applied \in {"", "SetChainID"}
    /\ Apply("Sign", Sign(key, subject), None)

SetChainID(c) ==
    /\ applied \in {"", "Sign"}
    /\ c # subject.chainID
    /\ Apply("SetChainID", [subject EXCEPT !.chainID = c], None)

Encode ==
    /\ applied # "EncodeRLP"
    /\ Apply("EncodeRLP", subject, Some(EncodeRLP(subject)))

Decode ==
    /\ applied = "EncodeRLP"
    /\ DecodeRLP(yield[1]).ok
    /\ Apply("DecodeRLP", DecodeRLP(yield[1]).tx[1], yield)

NextCodec ==
    \/ \E key \in Addrs : SignTx(key)
    \/ \E c \in ChainIDs : SetChainID(c)
    \/ Encode
    \/ Decode

SpecCodec == InitCodec /\ [][NextCodec]_vars

(***************************************************************************)
(* txsign.Sign and txsign.Recover applied to a transaction whose chain ID  *)
(* and signature the program may set itself.                               *)
(***************************************************************************)
\* v of a Legacy signature: pre-EIP-155, EIP-155 of chain ID 1, and EIP-155
\* of chain ID 2^64 + 1, which no uint64 holds
VValues == {27, 2 * 1 + 35, 2 * (Uint64Range + 1) + 35}

SetV(v) ==
    /\ applied \in {"Sign", "SetChainID"}
    /\ IsSet(subject.sig)
    /\ v # subject.sig[1].v
    /\ Apply("SetV", [subject EXCEPT !.sig = Some([@[1] EXCEPT !.v = v])], None)

RecoverTx ==
    /\ applied # "Recover"
    /\ Apply("Recover", subject, Recover(subject))

NextSign ==
    \/ \E key \in Addrs : SignTx(key)
    \/ \E c \in ChainIDs : SetChainID(c)
    \/ \E v \in VValues : SetV(v)
    \/ RecoverTx

SpecSign == InitCodec /\ [][NextSign]_vars

(***************************************************************************)
(* tx.Call() on the heap.  A transaction or a Call is an object whose      *)
(* fields are references into heap (0 is nil): a pointer field refers to a *)
(* cell <<value>>, a slice to the cell of its backing array.  An access    *)
(* list array holds [address, keys], keys referring to the array of        *)
(* storage keys; a blob array holds [hash, sidecar], sidecar referring to  *)
(* the sidecar's cell.                                                     *)
(***************************************************************************)
Fields ==
    {"from", "to", "gasLimit", "value", "input", "gasPrice", "accessList",
     "maxFee", "maxPrio", "blobFee", "blobs", "chainID", "nonce", "sig"}
AllFields ==
    <<"chainID", "nonce", "sig", "from", "to", "gasLimit", "value", "input",
      "gasPrice", "accessList", "maxFee", "maxPrio", "blobFee", "blobs">>
NilRefs == [f \in Fields |-> 0]

Nil(h) == [heap |-> h, ref |-> 0]
Allocated(h, cell) == [heap |-> Append(h, cell), ref |-> Len(h) + 1]

\* the heap objects of a transaction given by its field values
RECURSIVE StoreTuples(_, _, _)
StoreTuples(h, tuples, done) ==
    IF tuples = <<>> THEN [heap |-> h, items |-> done]
    ELSE LET t == Head(tuples)
             keys == IF t.storageKeys = <<>> THEN Nil(h) ELSE Allocated(h, t.storageKeys)
         IN  StoreTuples(keys.heap, Tail(tuples),
                         Append(done, [address |-> t.address, keys |-> keys.ref]))

RECURSIVE StoreBlobs(_, _, _)
StoreBlobs(h, blobs, done) ==
    IF blobs = <<>> THEN [heap |-> h, items |-> done]
    ELSE LET b == Head(blobs)
             sc == IF IsSet(b.sidecar) THEN Allocated(h, b.sidecar) ELSE Nil(h)
         IN  StoreBlobs(sc.heap, Tail(blobs),
                        Append(done, [hash |-> b.hash, sidecar |-> sc.ref]))

StoreField(h, f, v) ==
    IF v = <<>> THEN Nil(h)
    ELSE IF f = "accessList"
         THEN LET c == StoreTuples(h, v, <<>>) IN Allocated(c.heap, c.items)
    ELSE IF f = "blobs"
         THEN LET c == StoreBlobs(h, v, <<>>) IN Allocated(c.heap, c.items)
    ELSE Allocated(h, v)

RECURSIVE StoreFields(_, _, _, _)
StoreFields(h, tx, fs, acc) ==
    IF fs = <<>> THEN [heap |-> h, refs |-> acc]
    ELSE LET c == StoreField(h, Head(fs), tx[Head(fs)])
         IN  StoreFields(c.heap, tx, Tail(fs), [acc EXCEPT ![Head(fs)] = c.ref])

\* the value a field of an object has on heap h
Load(h, f, r) ==
    IF r = 0 THEN <<>>
    ELSE IF f = "accessList"
         THEN [i \in 1..Len(h[r]) |->
                  AccessTuple(h[r][i].address,
                              IF h[r][i].keys = 0 THEN <<>> ELSE h[h[r][i].keys])]
    ELSE IF f = "blobs"
         THEN [i \in 1..Len(h[r]) |->
                  Blob(h[r][i].hash,
                       IF h[r][i].sidecar = 0 THEN None ELSE h[h[r][i].sidecar])]
    ELSE h[r]

FieldValues(h, o) == [f \in Fields |-> Load(h, f, o.refs[f])]

\* the cells an object reaches
Reach(h, o) ==
    LET al == o.refs["accessList"]
        bl == o.refs["blobs"]
    IN  ({o.refs[f] : f \in Fields}
         \cup (IF al = 0 THEN {} ELSE {h[al][i].keys : i \in 1..Len(h[al])})
         \cup (IF bl = 0 THEN {} ELSE {h[bl][i].sidecar : i \in 1..Len(h[bl])}))
        \ {0}

\* copyPtr, copyBigInt, copyBytes: nil stays nil, else a new cell
copyPtr(h, r) == IF r = 0 THEN Nil(h) ELSE Allocated(h, h[r])
copyBigInt(h, r) == IF r = 0 THEN Nil(h) ELSE Allocated(h, h[r])
copyBytes(h, r) == IF r = 0 THEN Nil(h) ELSE Allocated(h, h[r])

\* a tuple copy that keeps the slice of storage keys
AccessTupleShared(h, tuple) == [heap |-> h, item |-> tuple]

\* AccessTuple.Copy: the storage keys are copied into a new array
AccessTupleCopy(h, tuple) ==
    LET keys == Allocated(h, IF tuple.keys = 0 THEN <<>> ELSE h[tuple.keys])
    IN  [heap |-> keys.heap, item |-> [address |-> tuple.address, keys |-> keys.ref]]

RECURSIVE AccessListItems(_, _, _)
AccessListItems(h, items, done) ==
    IF items = <<>> THEN [heap |-> h, items |-> done]
    ELSE LET c == AccessTupleCopy(h, Head(items))
         IN  AccessListItems(c.heap, Tail(items), Append(done, c.item))

\* AccessList.Copy: a new array of the copied tuples
AccessListCopy(h, r) ==
    LET c == AccessListItems(h, IF r = 0 THEN <<>> ELSE h[r], <<>>)
    IN  Allocated(c.heap, c.items)

\* the copy of a blob: the hash by value, the sidecar into a new cell
BlobCopy(h, blob) ==
    LET sc == copyPtr(h, blob.sidecar)
    IN  [heap |-> sc.heap, item |-> [hash |-> blob.hash, sidecar |-> sc.ref]]

RECURSIVE BlobItems(_, _, _)
BlobItems(h, items, done) ==
    IF items = <<>> THEN [heap |-> h, items |-> done]
    ELSE LET c == BlobCopy(h, Head(items))
         IN  BlobItems(c.heap, Tail(items), Append(done, c.item))

\* the copy of the blob list of EmbedBlobData
BlobsCopy(h, r) ==
    IF r = 0 THEN Nil(h)
    ELSE LET c == BlobItems(h, h[r], <<>>) IN Allocated(c.heap, c.items)

\* the fields of the fragments and the copy each Embed<Fragment>.Copy makes
EmbedCallDataFields == <<"from", "to", "gasLimit", "value", "input">>
EmbedLegacyPriceDataFields == <<"gasPrice">>
EmbedAccessListDataFields == <<"accessList">>
EmbedDynamicFeeDataFields == <<"maxFee", "maxPrio">>
EmbedBlobDataFields == <<"blobFee", "blobs">>

CopyField(h, f, r) ==
    IF f \in {"from", "to", "gasLimit"} THEN copyPtr(h, r)
    ELSE IF f = "input" THEN copyBytes(h, r)
    ELSE IF f = "accessList" THEN AccessListCopy(h, r)
    ELSE IF f = "blobs" THEN BlobsCopy(h, r)
    ELSE copyBigInt(h, r)

RECURSIVE CopyFields(_, _, _, _)
CopyFields(h, refs, fs, acc) ==
    IF fs = <<>> THEN [heap |-> h, refs |-> acc]
    ELSE LET c == CopyField(h, Head(fs), refs[Head(fs)])
         IN  CopyFields(c.heap, refs, Tail(fs), [acc EXCEPT ![Head(fs)] = c.ref])

\* the fragments Transaction<Variant>.Call() copies, in the order it does
CallFields(typ) ==
    IF typ = LegacyTxType THEN EmbedCallDataFields \o EmbedLegacyPriceDataFields
    ELSE IF typ = AccessListTxType
         THEN EmbedCallDataFields \o EmbedLegacyPriceDataFields \o EmbedAccessListDataFields
    ELSE IF typ = DynamicFeeTxType
         THEN EmbedCallDataFields \o EmbedAccessListDataFields \o EmbedDynamicFeeDataFields
    ELSE EmbedCallDataFields \o EmbedAccessListDataFields
         \o EmbedDynamicFeeDataFields \o EmbedBlobDataFields

\* Transaction<Variant>.Call() on heap h: the new heap and the Call object
TxCallCopy(h, o) ==
    LET c == CopyFields(h, o.refs, CallFields(o.type), NilRefs)
    IN  [heap |-> c.heap, call |-> [type |-> o.type, refs |-> c.refs]]

\* a signed transaction of every variant with every field set, and the
\* transaction of every variant with no field set
CallTxs ==
    {Sign(1, tx) : tx \in {t \in FragmentTxs({Some(1)}) :
        /\ IsSet(t.from) /\ IsSet(t.nonce)
        /\ IsSet(t.gasPrice) \/ IsSet(t.maxFee)
        /\ t.type # LegacyTxType => t.accessList # <<>>
        /\ t.type = BlobTxType => Len(t.blobs) = 2}}
    \cup {EmptyTx(typ) : typ \in TxTypes}

InitCall ==
    \E tx \in CallTxs :
        LET s == StoreFields(<<>>, tx, AllFields, NilRefs)
        IN  /\ Quiet
            /\ subject = [type |-> tx.type, refs |-> s.refs]
            /\ heap = s.heap
            /\ applied = ""
            /\ before = None
            /\ yield = None

\* c := tx.Call(); before keeps the field values tx has at that moment
MakeCall ==
    /\ applied = ""
    /\ LET c == TxCallCopy(heap, subject)
       IN  /\ heap' = c.heap
           /\ yield' = Some(c.call)
    /\ applied' = "Call"
    /\ before' = FieldValues(heap, subject)
    /\ UNCHANGED <<subject, pipeline>>

\* the value the program writes into the Call
Dirty == MaxVal + 1

Written(name, h) ==
    /\ heap' = h
    /\ applied' = name
    /\ UNCHANGED <<subject, before, yield, pipeline>>

\* *c.From = v, c.Value.Set(v), c.Input[0] = v, ...
WriteThrough(f) ==
    /\ IsSet(yield)
    /\ LET r == yield[1].refs[f]
       IN  /\ r # 0
           /\ heap[r] # <<Dirty>>
           /\ Written("WriteThrough", [heap EXCEPT ![r] = <<Dirty>>])

\* c.AccessList[i].Address = v
WriteTupleAddress(i) ==
    /\ IsSet(yield)
    /\ LET r == yield[1].refs["accessList"]
       IN  /\ r # 0
           /\ i <= Len(heap[r])
           /\ heap[r][i].address # Dirty
           /\ Written("WriteTupleAddress", [heap EXCEPT ![r][i].address = Dirty])

\* c.AccessList[i].StorageKeys[0] = v
WriteStorageKey(i) ==
    /\ IsSet(yield)
    /\ LET r == yield[1].refs["accessList"]
       IN  /\ r # 0
           /\ i <= Len(heap[r])
           /\ LET k == heap[r][i].keys
              IN  /\ k # 0
                  /\ heap[k] # <<>>
                  /\ heap[k][1] # Dirty
                  /\ Written("WriteStorageKey", [heap EXCEPT ![k][1] = Dirty])

\* c.Blobs[i].Hash = v
WriteBlobHash(i) ==
    /\ IsSet(yield)
    /\ LET r == yield[1].refs["blobs"]
       IN  /\ r # 0
           /\ i <= Len(heap[r])
           /\ heap[r][i].hash # Dirty
           /\ Written("WriteBlobHash", [heap EXCEPT ![r][i].hash = Dirty])

\* c.Blobs[i].Sidecar.Blob[0] = v
WriteSidecar(i) ==
    /\ IsSet(yield)
    /\ LET r == yield[1].refs["blobs"]
       IN  /\ r # 0
           /\ i <= Len(heap[r])
           /\ LET k == heap[r][i].sidecar
              IN  /\ k # 0
                  /\ heap[k] # <<Dirty>>
                  /\ Written("WriteSidecar", [heap EXCEPT ![k] = <<Dirty>>])

\* c.From = nil, c.Input = nil, c.AccessList = nil, ...: the first change the
\* program makes to the Call
AssignNil(f) ==
    /\ applied = "Call"
    /\ yield[1].refs[f] # 0
    /\ yield' = Some([yield[1] EXCEPT !.refs[f] = 0])
    /\ applied' = "AssignNil"
    /\ UNCHANGED <<subject, before, heap, pipeline>>

ScalarFields ==
    {"from", "to", "gasLimit", "value", "input", "gasPrice", "maxFee", "maxPrio",
     "blobFee"}
MaxItems == 2

NextCall ==
    \/ MakeCall
    \/ \E f \in ScalarFields : WriteThrough(f)
    \/ \E i \in 1..MaxItems : WriteTupleAddress(i)
    \/ \E i \in 1..MaxItems : WriteStorageKey(i)
    \/ \E i \in 1..MaxItems : WriteBlobHash(i)
    \/ \E i \in 1..MaxItems : WriteSidecar(i)
    \/ \E f \in Fields : AssignNil(f)

SpecCall == InitCall /\ [][NextCall]_vars

(***************************************************************************)
(* One gas-limit or gas-fee hijacker with any bounds whose minimum does    *)
(* not exceed the maximum (a bound that is 0, or nil for the fees, is      *)
(* switched off), and eth_sendTransaction calls through it.  The gas-fee   *)
(* hijackers keep the transaction type.                                    *)
(***************************************************************************)
Double == [num |-> 2, den |-> 1]
ClampMults == {One, Double}
GasLimits == 0..(MaxVal + 1)
FeeLimits == {None} \cup {Some(v) : v \in 0..(MaxVal + 1)}

GasRanges == {b \in [min : GasLimits, max : GasLimits] : b.max = 0 \/ b.min <= b.max}
FeeRanges ==
    {b \in [min : FeeLimits, max : FeeLimits] :
        (IsSet(b.min) /\ IsSet(b.max)) => b.min[1] <= b.max[1]}

ClampHijackers ==
    {[kind |-> "gasLimit", multiplier |-> m, minGas |-> b.min, maxGas |-> b.max, replace |-> r] :
        m \in ClampMults, b \in GasRanges, r \in BOOLEAN}
    \cup
    {[kind |-> "legacyGasFee", multiplier |-> m, minGasPrice |-> b.min, maxGasPrice |-> b.max,
      replace |-> r, allowChangeType |-> FALSE] :
        m \in ClampMults, b \in FeeRanges, r \in BOOLEAN}
    \cup
    {[kind |-> "dynamicGasFee", gasPriceMultiplier |-> m, priorityFeePerGasMultiplier |-> One,
      minGasPrice |-> b.min, maxGasPrice |-> b.max,
      minPriorityFeePerGas |-> p.min, maxPriorityFeePerGas |-> p.max,
      replace |-> r, allowChangeType |-> FALSE] :
        m \in ClampMults, b \in FeeRanges, p \in FeeRanges, r \in BOOLEAN}

InitClamp == \E h \in ClampHijackers : Idle(<<h>>)

\* transactions sent through it: the gas limit and the fees are set or not
ClampTxs ==
    {tx \in BaseTxs : ~IsSet(tx.from) /\ ~IsSet(tx.chainID) /\ ~IsSet(tx.nonce)}

\* MethodsCommon.SendTransaction(ctx, tx) on that client
SendForClamp ==
    /\ pc = "idle"
    /\ \E tx \in ClampTxs : args' = <<tx>>
    /\ method' = "eth_sendTransaction"
    /\ result' = ResultOf("Hash")
    /\ chain' = callFunc
    /\ pos' = 1
    /\ pc' = "run"
    /\ err' = NoErr
    /\ wire' = <<>>
    /\ hist' = <<>>
    /\ UNCHANGED <<callFunc, setup>>

NextClamp ==
    \/ SendForClamp
    \/ CallReturns
    \/ StageGasLimit
    \/ StageLegacyGasFee
    \/ StageDynamicGasFee
    \/ defCall

SpecClamp == InitClamp /\ [][NextClamp]_vars

(***************************************************************************)
(* NewClient with any options, WithTransport among them or not, and calls  *)
(* on the client it returns.  The context of the options holds the         *)
(* transport built so far: nil, the node's transport, or a Hijack around   *)
(* one of these with the chain its Use calls folded.                       *)
(***************************************************************************)
NilTransport == [kind |-> "nil"]
NodeTransport == [kind |-> "node"]

\* transport.NewHijacker(t, hs...)
NewHijacker(t, hs) == [kind |-> "hijack", transport |-> t, callFunc |-> UseFold(<<>>, hs)]

\* addHijacker: Use on a Hijack, a new Hijack around anything else
addHijacker(t, hs) ==
    IF t.kind = "hijack"
    THEN [t EXCEPT !.callFunc = UseFold(t.callFunc, hs)]
    ELSE NewHijacker(t, hs)

WithTransactionDecoder == [opt |-> "WithTransactionDecoder"]
\* the apply function of both options adds one hijackSimulate and does not
\* use the hijackers the constructor was given
WithPostHijackers(hijackers) ==
    [opt |-> "WithPostHijackers", hijackers |-> hijackers,
     h |-> [kind |-> "simulate", decoder |-> FALSE, recoverer |-> FALSE]]
WithPreHijackers(hijackers) ==
    [opt |-> "WithPreHijackers", hijackers |-> hijackers,
     h |-> [kind |-> "simulate", decoder |-> FALSE, recoverer |-> TRUE]]

\* option.Apply on the context c = [Transport, Decoder]
ApplyOption(c, o) ==
    CASE o.opt = "WithTransport" -> [c EXCEPT !.Transport = NodeTransport]
      [] o.opt = "WithTransactionDecoder" -> [c EXCEPT !.Decoder = "custom"]
      [] OTHER -> [c EXCEPT !.Transport = addHijacker(c.Transport, <<o.h>>)]

RECURSIVE ApplyInTurn(_, _)
ApplyInTurn(c, opts) ==
    IF opts = <<>> THEN c ELSE ApplyInTurn(ApplyOption(c, Head(opts)), Tail(opts))

\* NewClient and NewCustomClient: the client, or the error; no option of the
\* model fails to apply
NewClient(opts) ==
    LET c == ApplyInTurn([Transport |-> NilTransport, Decoder |-> "nil"], SortByOrder(opts))
        dec == IF c.Decoder = "nil" THEN "default" ELSE c.Decoder
    IN  IF c.Transport = NilTransport
        THEN [client |-> None, err |-> "rpc client: transport is required"]
        ELSE [client |-> Some([Transport |-> c.Transport, Decoder |-> dec]), err |-> ""]

\* number of options passed to the constructor
MaxGiven == 2
GivenOptionNames ==
    {"WithTransport", "WithTransactionDecoder", "WithSimulate", "WithKeys",
     "WithChainID", "WithPreHijackers", "WithPostHijackers"}

\* the caller's own hijackers: 1 is passed to WithPreHijackers, 2 to
\* WithPostHijackers
GivenOption(name) ==
    CASE name = "WithTransactionDecoder" -> WithTransactionDecoder
      [] name = "WithPreHijackers" -> WithPreHijackers(<<Custom(1, "pass")>>)
      [] name = "WithPostHijackers" -> WithPostHijackers(<<Custom(2, "pass")>>)
      [] OTHER -> Option(name, 1, 1, 1)

GivenOptionLists ==
    {[i \in 1..Len(l) |-> GivenOption(l[i])] : l \in Arrangements(GivenOptionNames, MaxGiven)}

InitOptions == Idle(<<>>)

\* the program calls NewClient once; subject is the option list, yield what
\* the constructor returned, callFunc the chain of the client's Hijack
Construct ==
    /\ applied = ""
    /\ \E opts \in GivenOptionLists :
        LET made == NewClient(opts)
        IN  /\ subject' = opts
            /\ yield' = made
            /\ callFunc' = IF IsSet(made.client) /\ made.client[1].Transport.kind = "hijack"
                           THEN made.client[1].Transport.callFunc
                           ELSE <<>>
    /\ applied' = "NewClient"
    /\ before' = subject
    /\ UNCHANGED <<chain, pos, pc, method, args, result, err, wire, hist,
                   regs, ctxs, arrays, callCtx, fetched, inflight, heap>>

\* the transport the client's calls end in: that of its Hijack, or its own
Underlying(client) ==
    IF client.Transport.kind = "hijack" THEN client.Transport.transport ELSE client.Transport

\* what the program sends through the client: a transaction a key has signed,
\* as it is or encoded, and bytes that are no transaction
SentSigned == [Sign(1, [EmptyTx(DynamicFeeTxType) EXCEPT !.to = Some(1)]) EXCEPT !.from = None]
ClientCalls ==
    {CallInput("eth_sendTransaction", <<SentSigned>>, "Hash")}
    \cup {CallInput(m, <<raw>>, "Hash") :
            m \in {"eth_sendRawTransaction", "eth_sendPrivateTransaction"},
            raw \in {EncodeRLP(SentSigned), MalformedBytes}}

\* a call of one of the client's methods
ClientCall ==
    /\ pc = "idle"
    /\ applied = "NewClient"
    /\ IsSet(yield.client)
    /\ \E c \in ClientCalls :
        /\ method' = c.method
        /\ args' = c.args
        /\ result' = c.result
    /\ chain' = callFunc
    /\ pos' = 1
    /\ pc' = "run"
    /\ err' = NoErr
    /\ wire' = <<>>
    /\ hist' = <<>>
    /\ UNCHANGED <<callFunc, setup>>

\* defCall with the transport the Hijack was created around
defCallNode ==
    /\ pc = "run"
    /\ Underlying(yield.client[1]) = NodeTransport
    /\ defCall

\* defCall with a nil transport: t.Call dereferences nil
defCallNil ==
    /\ pc = "run"
    /\ pos = Len(chain) + 1
    /\ Underlying(yield.client[1]) = NilTransport
    /\ err' = Panic("defCall")
    /\ pc' = "done"
    /\ UNCHANGED <<callFunc, chain, pos, method, args, result, wire, hist, setup>>

NextOptions ==
    \/ Construct
    \/ ClientCall
    \/ CallReturns
    \/ StageChainID
    \/ StageSign
    \/ StageSimulate
    \/ defCallNode
    \/ defCallNil

SpecOptions == InitOptions /\ [][NextOptions]_vars

(***************************************************************************)
(* wallet.KeyRPC: a key whose transactions a remote node signs.  The node  *)
(* answers eth_signTransaction with an error or with bytes; the bytes may  *)
(* be no transaction, or the encoding of the transaction, as it was sent   *)
(* or with its nonce or gas limit changed, signed by any key.              *)
(***************************************************************************)
\* a SignTransaction that does not compare the recovered address
SignTransactionUnverified(address, tx, answer) ==
    IF ~IsSet(answer) THEN [tx |-> tx, err |-> "client error"]
    ELSE LET dec == DecodeRLP(answer[1])
         IN  IF ~dec.ok THEN [tx |-> tx, err |-> "failed to decode signed transaction"]
             ELSE [tx |-> [tx EXCEPT !.chainID = dec.tx[1].chainID,
                                     !.nonce = dec.tx[1].nonce,
                                     !.sig = dec.tx[1].sig],
                   err |-> ""]

\* KeyRPC.SignTransaction of the key with the address given; answer is what
\* client.SignTransaction returned, None for an error.  Yields the caller's
\* transaction as it is afterwards and the error ("" for nil).
SignTransactionRPC(address, tx, answer) ==
    IF ~IsSet(answer) THEN [tx |-> tx, err |-> "client error"]
    ELSE LET dec == DecodeRLP(answer[1])
         IN  IF ~dec.ok THEN [tx |-> tx, err |-> "failed to decode signed transaction"]
             ELSE LET stx == dec.tx[1]
                      \* SetTransactionData: chain ID, nonce and signature
                      tx1 == [tx EXCEPT !.chainID = stx.chainID, !.nonce = stx.nonce,
                                        !.sig = stx.sig]
                      addr == Recover(tx1)
                  IN  IF ~IsSet(addr)
                      THEN [tx |-> tx1, err |-> "failed to verify signed transaction"]
                      ELSE IF addr[1] # address
                      THEN [tx |-> tx1,
                            err |-> "recovered address does not match key address"]
                      ELSE [tx |-> tx1, err |-> ""]

\* the transactions the program asks the key to sign
KeyTxs ==
    {tx \in FragmentTxs({None, Some(1)}) :
        ~IsSet(tx.from) /\ tx.accessList = <<>> /\ tx.blobs = <<>>}

\* what the node may answer for transaction tx
NodeAnswers(tx) ==
    {None, Some(MalformedBytes)}
    \cup {Some(EncodeRLP(Sign(key, ntx))) :
            key \in Addrs,
            ntx \in {tx, [tx EXCEPT !.nonce = Some(OrZero(tx.nonce) + 1)],
                     [tx EXCEPT !.gasLimit = Some(OrZero(tx.gasLimit) + 1)]}}

InitKey == \E tx \in KeyTxs : Hold(tx)

\* the program has the key of some address sign its transaction
SignWithKeyRPC ==
    /\ applied = ""
    /\ \E address \in Addrs, answer \in NodeAnswers(subject) :
        LET out == SignTransactionRPC(address, subject, answer)
        IN  Apply("KeyRPC.SignTransaction", out.tx,
                  [address |-> address, answer |-> answer, err |-> out.err])

\* the program looks at the sender of the transaction it holds now
RecoverSigned ==
    /\ applied = "KeyRPC.SignTransaction"
    /\ yield.err = ""
    /\ Apply("Recover", subject, Recover(subject))

NextKey == SignWithKeyRPC \/ RecoverSigned

SpecKey == InitKey /\ [][NextKey]_vars

(***************************************************************************)
(* subscribe: one subscription and its background task.  sub is            *)
(*   pc       where the task is: "none" before subscribe, "failed" when    *)
(*            subscribe returned an error, "select" at the select, "send"  *)
(*            at msgCh <- msg, "unsubscribe" and "close" at the deferred   *)
(*            calls, "exited"                                              *)
(*   id       the subscription id the transport returned                   *)
(*   ctxDone  the context was cancelled                                    *)
(*   rawCh, rawClosed   the raw messages waiting in the transport's        *)
(*            channel, and whether the transport closed it                 *)
(*   taken    the raw messages the task received so far                    *)
(*   msg      the value the task is sending                                *)
(*   msgCh    the values the consumer received from the outbound channel   *)
(*   reading  the consumer receives from the outbound channel              *)
(*   unsubscribed   the ids Unsubscribe was called with                    *)
(*   closed   the outbound channel is closed                               *)
(***************************************************************************)
\* messages the transport delivers during one subscription
MaxMsgs == 3
SubIDs == {1, 2}
RawMsgs == {[form |-> "json", val |-> v] : v \in 1..(MaxVal + 1)} \cup {[form |-> "garbage"]}

\* json.Unmarshal(raw, &msg): the value, None for an error
Unmarshal(raw) == IF raw.form = "json" THEN Some(raw.val) ELSE None

\* a task that returns when a message does not decode
ReceivedOrReturn(s, raw) ==
    IF ~IsSet(Unmarshal(raw))
    THEN [s EXCEPT !.rawCh = Tail(@), !.taken = Append(@, raw), !.pc = "unsubscribe"]
    ELSE [s EXCEPT !.rawCh = Tail(@), !.taken = Append(@, raw),
                   !.msg = Unmarshal(raw)[1], !.pc = "send"]

\* case raw, ok := <-rawCh with ok true: the task as it is after receiving
\* raw; a message that does not decode sends it back to the select
Received(s, raw) ==
    IF ~IsSet(Unmarshal(raw))
    THEN [s EXCEPT !.rawCh = Tail(@), !.taken = Append(@, raw)]
    ELSE [s EXCEPT !.rawCh = Tail(@), !.taken = Append(@, raw),
                   !.msg = Unmarshal(raw)[1], !.pc = "send"]

InitSubscribe == Idle(<<>>)

Others == <<callFunc, chain, pos, pc, method, args, result, err, wire, hist,
            regs, ctxs, arrays, callCtx, fetched, chainIDVar, calls, values>>

\* subscribe(ctx, t, method, params...): st.Subscribe fails, or the task starts
Subscribe ==
    /\ sub.pc = "none"
    /\ \/ sub' = [pc |-> "failed"]
       \/ \E id \in SubIDs :
            sub' = [pc |-> "select", id |-> id, ctxDone |-> FALSE, rawCh |-> <<>>,
                    rawClosed |-> FALSE, taken |-> <<>>, msg |-> 0, msgCh |-> <<>>,
                    reading |-> TRUE, unsubscribed |-> <<>>, closed |-> FALSE]
    /\ UNCHANGED Others

Subscribed == sub.pc \notin {"none", "failed"}

\* the transport puts a message into the raw channel
TransportSends ==
    /\ Subscribed
    /\ ~sub.rawClosed
    /\ Len(sub.taken) + Len(sub.rawCh) < MaxMsgs
    /\ \E raw \in RawMsgs : sub' = [sub EXCEPT !.rawCh = Append(@, raw)]
    /\ UNCHANGED Others

\* the transport closes the raw channel
TransportCloses ==
    /\ Subscribed
    /\ ~sub.rawClosed
    /\ sub' = [sub EXCEPT !.rawClosed = TRUE]
    /\ UNCHANGED Others

\* the caller cancels the context
Cancel ==
    /\ Subscribed
    /\ ~sub.ctxDone
    /\ sub' = [sub EXCEPT !.ctxDone = TRUE]
    /\ UNCHANGED Others

\* the consumer stops receiving from the outbound channel
ConsumerStops ==
    /\ Subscribed
    /\ sub.reading
    /\ sub' = [sub EXCEPT !.reading = FALSE]
    /\ UNCHANGED Others

\* case <-ctx.Done(): return
SelectDone ==
    /\ sub.pc = "select"
    /\ sub.ctxDone
    /\ sub' = [sub EXCEPT !.pc = "unsubscribe"]
    /\ UNCHANGED Others

\* case raw, ok := <-rawCh with a message waiting
SelectRaw ==
    /\ sub.pc = "select"
    /\ sub.rawCh # <<>>
    /\ sub' = Received(sub, Head(sub.rawCh))
    /\ UNCHANGED Others

\* case raw, ok := <-rawCh on the closed, drained channel: return
SelectClosed ==
    /\ sub.pc = "select"
    /\ sub.rawCh = <<>>
    /\ sub.rawClosed
    /\ sub' = [sub EXCEPT !.pc = "unsubscribe"]
    /\ UNCHANGED Others

\* msgCh <- msg: the channel has no buffer, the send waits for the consumer
SendMsg ==
    /\ sub.pc = "send"
    /\ sub.reading
    /\ sub' = [sub EXCEPT !.msgCh = Append(@, sub.msg), !.pc = "select"]
    /\ UNCHANGED Others

\* defer st.Unsubscribe(ctx, subID)
DeferredUnsubscribe ==
    /\ sub.pc = "unsubscribe"
    /\ sub' = [sub EXCEPT !.unsubscribed = Append(@, sub.id), !.pc = "close"]
    /\ UNCHANGED Others

\* defer close(msgCh)
DeferredClose ==
    /\ sub.pc = "close"
    /\ sub' = [sub EXCEPT !.closed = TRUE, !.pc = "exited"]
    /\ UNCHANGED Others

\* the steps of the background task
Task ==
    \/ SelectDone
    \/ SelectRaw
    \/ SelectClosed
    \/ SendMsg
    \/ DeferredUnsubscribe
    \/ DeferredClose

NextSubscribe ==
    \/ Subscribe
    \/ TransportSends
    \/ TransportCloses
    \/ Cancel
    \/ ConsumerStops
    \/ Task

SpecSubscribe == InitSubscribe /\ [][NextSubscribe]_vars

\* the scheduler runs the task whenever it can take a step; nothing obliges
\* the transport, the caller or the consumer to act
SpecSubscribeFair == SpecSubscribe /\ WF_vars(Task)

(***************************************************************************)
(* Properties.                                                             *)
(***************************************************************************)
SendMethods == {"eth_sendTransaction", "eth_sendRawTransaction", "eth_sendPrivateTransaction"}

\* the underlying transport received the call itself (not a stage's request)
Delivered(j) == wire[j].by = "defCall"

\* the simulate stage's eth_call was answered with an error
SimulationCallFailed ==
    \E j \in 1..Len(wire) :
        wire[j].by = "simulate" /\ wire[j].method = "eth_call" /\ ~IsSet(wire[j].resp)

\* a simulate stage that has a decoder received raw bytes that do not decode
RawUndecodable ==
    \E i \in 1..Len(hist) :
        /\ hist[i].stage.kind = "simulate" /\ hist[i].stage.decoder
        /\ hist[i].method \in {"eth_sendRawTransaction", "eth_sendPrivateTransaction"}
        /\ Len(hist[i].args) > 0 /\ IsBytes(hist[i].args[1])
        /\ ~DecodeRLP(hist[i].args[1]).ok

C1_WitnessForwarded ==
    /\ pc = "done"
    /\ Len(hist) = 1 /\ hist[1].stage.kind = "simulate"
    /\ \E j \in 1..Len(wire) : Delivered(j) /\ wire[j].method = "eth_sendTransaction"

Deliveries == {j \in 1..Len(wire) : Delivered(j)}

\* the call in progress entered a chain that is one sign stage, as an
\* eth_sendTransaction
SignStageGotSend ==
    /\ Len(chain) = 1 /\ chain[1].kind = "sign"
    /\ Len(hist) = 1 /\ hist[1].method = "eth_sendTransaction"

(***************************************************************************)
(* C2 as stated: with the sign hijacker installed the transport never      *)
(* receives an eth_sendTransaction, and every such call that has returned  *)
(* failed or was delivered as exactly one eth_sendRawTransaction.          *)
(***************************************************************************)
C2_NoSendTransactionDelivered ==
    SignStageGotSend =>
        /\ \A j \in Deliveries : wire[j].method # "eth_sendTransaction"
        /\ pc = "done" =>
              \/ (Deliveries = {} /\ err # NoErr)
              \/ (Cardinality(Deliveries) = 1
                  /\ \A j \in Deliveries : wire[j].method = "eth_sendRawTransaction")

(***************************************************************************)
(* C2, amended: an eth_sendTransaction with exactly one argument that      *)
(* passes the sign hijacker is never delivered as eth_sendTransaction; the *)
(* call fails in the hijacker without a delivery, or the transport         *)
(* receives exactly one eth_sendRawTransaction whose argument is the RLP   *)
(* encoding of the transaction signed by the key of the transaction's      *)
(* from (the sender recovered from the bytes is that address).             *)
(***************************************************************************)
C2_OneArgumentSendIsSignedRaw ==
    (SignStageGotSend /\ Len(hist[1].args) = 1) =>
        /\ \A j \in Deliveries : wire[j].method # "eth_sendTransaction"
        /\ pc = "done" =>
              \/ (Deliveries = {} /\ err # NoErr /\ err.origin = "sign")
              \/ /\ Cardinality(Deliveries) = 1
                 /\ \A j \in Deliveries :
                      LET tx == hist[1].args[1]
                      IN  /\ wire[j].method = "eth_sendRawTransaction"
                          /\ IsTransaction(tx) /\ IsSet(tx.from)
                          /\ \E k \in 1..Len(chain[1].keys) : chain[1].keys[k].addr = tx.from[1]
                          /\ wire[j].args = <<EncodeRLP(Sign(tx.from[1], tx))>>
                          /\ DecodeRLP(wire[j].args[1]).ok
                          /\ Recover(DecodeRLP(wire[j].args[1]).tx[1]) = tx.from

C2_Witness ==
    /\ SignStageGotSend /\ Len(hist[1].args) = 1
    /\ pc = "done"
    /\ Cardinality(Deliveries) = 1
    /\ IsSet(hist[1].args[1].chainID)
    /\ hist[1].args[1].type = LegacyTxType

\* the transaction field a fill-in stage is responsible for
FieldOf(kind, tx) ==
    CASE kind = "chainID" -> tx.chainID
      [] kind = "nonce" -> tx.nonce
      [] kind = "gasLimit" -> tx.gasLimit
      [] kind = "legacyGasFee" -> tx.gasPrice

\* stage i of the call got an eth_sendTransaction whose field the stage is
\* responsible for is already set, and the stage does not replace
KeepsField(i) ==
    /\ hist[i].stage.kind \in {"chainID", "nonce", "gasLimit", "legacyGasFee"}
    /\ ~hist[i].stage.replace
    /\ hist[i].method = "eth_sendTransaction"
    /\ Len(hist[i].args) > 0 /\ IsTransaction(hist[i].args[1])
    /\ HasCallData(hist[i].args[1])
    /\ hist[i].stage.kind = "legacyGasFee" => HasLegacyPrice(hist[i].args[1])
    /\ IsSet(FieldOf(hist[i].stage.kind, hist[i].args[1]))

(***************************************************************************)
(* C5: a chain-ID, nonce, gas-limit or legacy-gas-price hijacker with      *)
(* replace=false that receives an eth_sendTransaction whose field is       *)
(* already set calls next with the field at the same value and sends no    *)
(* request of its own to the node.                                         *)
(***************************************************************************)
C5_SetFieldKept ==
    \A i \in 1..Len(hist) :
        KeepsField(i) =>
            /\ hist[i].out.next
            /\ hist[i].out.method = "eth_sendTransaction"
            /\ FieldOf(hist[i].stage.kind, hist[i].out.args[1])
                  = FieldOf(hist[i].stage.kind, hist[i].args[1])
            /\ hist[i].out.reqs = <<>>
            /\ \A j \in 1..Len(wire) : wire[j].by # hist[i].stage.kind
            /\ i = Len(hist) =>
                  /\ pos = hist[i].pos + 1
                  /\ FieldOf(hist[i].stage.kind, args[1])
                        = FieldOf(hist[i].stage.kind, hist[i].args[1])

C5_Witness ==
    /\ Len(hist) = 1 /\ KeepsField(1)
    /\ hist[1].stage.kind = "nonce"
    /\ pc = "done" /\ Deliveries # {}

\* the from of the first argument, for a transaction or a call
FromOf(a) == a.from

\* stage i is the address stage and got a transaction or call with call data
AddressActs(i) ==
    /\ hist[i].stage.kind = "address"
    /\ hist[i].method \in {"eth_sendTransaction", "eth_call", "eth_estimateGas"}
    /\ Len(hist[i].args) > 0
    /\ \/ (hist[i].method = "eth_sendTransaction" /\ IsTransaction(hist[i].args[1])
           /\ HasCallData(hist[i].args[1]))
       \/ (hist[i].method # "eth_sendTransaction" /\ IsCall(hist[i].args[1]))

(***************************************************************************)
(* C6: for eth_sendTransaction, eth_call and eth_estimateGas the address   *)
(* hijacker forwards from set to the default address if from was unset or  *)
(* replace is true, and forwards an already-set from unchanged if replace  *)
(* is false.                                                               *)
(***************************************************************************)
C6_FromSetIffUnsetOrReplace ==
    \A i \in 1..Len(hist) :
        AddressActs(i) =>
            /\ hist[i].out.next
            /\ FromOf(hist[i].out.args[1]) =
                  IF ~IsSet(FromOf(hist[i].args[1])) \/ hist[i].stage.replace
                  THEN Some(hist[i].stage.address)
                  ELSE FromOf(hist[i].args[1])

\* what the code does instead: a set from is overwritten exactly when
\* replace is false
C6_Observed ==
    /\ Len(hist) = 1 /\ AddressActs(1)
    /\ ~hist[1].stage.replace
    /\ IsSet(FromOf(hist[1].args[1]))
    /\ FromOf(hist[1].args[1]) # Some(hist[1].stage.address)
    /\ FromOf(hist[1].out.args[1]) = Some(hist[1].stage.address)

\* the methods a built-in hijacker acts on
Handles(kind) ==
    CASE kind = "address" -> {"eth_sendTransaction", "eth_call", "eth_estimateGas"}
      [] kind = "sign" -> {"eth_accounts", "eth_sign", "eth_signTransaction",
                           "eth_sendTransaction"}
      [] kind = "simulate" -> SendMethods
      [] OTHER -> {"eth_sendTransaction"}

(***************************************************************************)
(* C9: a built-in hijacker that receives a method it does not handle calls *)
(* next once with the same method, arguments and result target, and sends  *)
(* no request of its own; the transport then receives that call once.      *)
(***************************************************************************)
C9_UnhandledPassesThrough ==
    \A i \in 1..Len(hist) :
        hist[i].method \notin Handles(hist[i].stage.kind) =>
            /\ hist[i].out.next
            /\ hist[i].out.method = hist[i].method
            /\ hist[i].out.args = hist[i].args
            /\ hist[i].out.result = hist[i].result
            /\ hist[i].out.reqs = <<>>
            /\ \A j \in 1..Len(wire) : wire[j].by # hist[i].stage.kind
            /\ (i = Len(hist) /\ pc = "run") =>
                  /\ pos = hist[i].pos + 1
                  /\ method = hist[i].method /\ args = hist[i].args
                  /\ result = hist[i].result
            /\ (Len(chain) = 1 /\ pc = "done") =>
                  /\ Cardinality(Deliveries) = 1
                  /\ \A j \in Deliveries :
                        wire[j].method = hist[i].method /\ wire[j].args = hist[i].args

C9_Witness ==
    /\ Len(hist) = 1 /\ hist[1].stage.kind = "sign"
    /\ hist[1].method = "eth_call"
    /\ pc = "done" /\ Cardinality(Deliveries) = 1

BuiltinNames ==
    {"address", "chain ID", "nonce", "gas limit", "legacy gas price", "dynamic gas fee",
     "sign", "simulate"}

(***************************************************************************)
(* C10: an error a built-in hijacker created and returned to the caller is *)
(* an ErrHijackFailed that carries the hijacker's name and the cause.      *)
(***************************************************************************)
C10_ErrorsAreHijackFailed ==
    (pc = "done" /\ err # NoErr /\ err.origin \in BuiltinNames /\ err.cause # "panic") =>
        /\ err.wrapped
        /\ err.name = err.origin
        /\ err.cause # ""

\* the unwrapped error of a sign stage that holds no key
C10_Observed ==
    /\ pc = "done" /\ Len(hist) = 1
    /\ hist[1].stage.kind = "sign" /\ hist[1].method = "eth_sendTransaction"
    /\ err = PlainErr("no keys found", "sign")

\* the permanent stages in the order Use promises: last registered first
RECURSIVE Reverse(_)
Reverse(q) == IF q = <<>> THEN <<>> ELSE Append(Reverse(Tail(q)), Head(q))

RECURSIVE Lineage(_)
Lineage(c) == IF c = 0 THEN <<>> ELSE Lineage(ctxs[c].parent) \o ctxs[c].attached

(***************************************************************************)
(* C8: a call made with a context runs the hijackers attached to that      *)
(* context (along its derivation) and no other per-call hijacker, in the   *)
(* order they were attached, before every permanent hijacker; the          *)
(* permanent hijackers then run in the order they have in a call without   *)
(* per-call hijackers.                                                     *)
(***************************************************************************)
C8_PerCallThenPermanent ==
    pc # "idle" =>
        LET order == Stages(Lineage(callCtx)) \o Reverse(Stages(regs))
        IN  /\ Len(hist) <= Len(order)
            /\ \A i \in 1..Len(hist) : hist[i].stage = order[i]
            /\ Deliveries # {} => Len(hist) = Len(order)

\* a call made with one context runs a hijacker that was attached to a
\* sibling context
C8_Observed ==
    /\ pc = "done"
    /\ \E i \in 1..Len(hist) :
          /\ hist[i].stage.id > 10
          /\ \A k \in 1..Len(Lineage(callCtx)) : Lineage(callCtx)[k] # hist[i].stage

\* the kinds of the stages the call in progress has gone through, in order
KindsRun == [i \in 1..Len(hist) |-> hist[i].stage.kind]

\* the place of a stage in the order the specification states
StatedRank(kind) ==
    CASE kind = "address" -> 1
      [] kind = "chainID" -> 2
      [] kind = "nonce" -> 3
      [] kind \in {"legacyGasFee", "dynamicGasFee"} -> 4
      [] kind = "gasLimit" -> 5
      [] kind = "sign" -> 6
      [] kind = "simulate" -> 7

\* the place of a stage in the order the option order numbers give
OrderRank(kind) ==
    CASE kind = "chainID" -> 1
      [] kind = "address" -> 2
      [] kind = "gasLimit" -> 3
      [] kind = "dynamicGasFee" -> 4
      [] kind = "legacyGasFee" -> 5
      [] kind = "nonce" -> 6
      [] kind = "simulate" -> 7
      [] kind = "sign" -> 8

StageOf(kind) ==
    IF \E i \in 1..Len(hist) : KindsRun[i] = kind
    THEN CHOOSE i \in 1..Len(hist) : KindsRun[i] = kind
    ELSE 0

\* the client has the address, chain-ID, nonce, gas-limit and sign hijackers
\* and a key for its default address, and is sending a transaction whose
\* from, chain ID, nonce, gas limit and fees are not set
FillAndSignSend ==
    /\ pc # "idle" /\ Len(hist) > 0
    /\ {"address", "chainID", "nonce", "gasLimit", "sign"}
          \subseteq {chain[i].kind : i \in 1..Len(chain)}
    /\ \E i \in 1..Len(chain), k \in 1..Len(chain) :
          /\ chain[i].kind = "address" /\ chain[k].kind = "sign"
          /\ \E n \in 1..Len(chain[k].keys) :
                chain[k].keys[n].addr = chain[i].address /\ chain[k].keys[n].ok
    /\ hist[1].method = "eth_sendTransaction"
    /\ ~IsSet(hist[1].args[1].from)

\* the default address of the client of the call in progress
DefaultAddress ==
    LET i == CHOOSE i \in 1..Len(chain) : chain[i].kind = "address"
    IN  chain[i].address

(***************************************************************************)
(* C4: with the address, chain-ID, nonce, gas-limit and sign hijackers on  *)
(* a client that holds a key for the default address, a transaction sent   *)
(* with only to and input set reaches the transport only as one            *)
(* eth_sendRawTransaction: the transaction the sign stage received has     *)
(* from = the default address and chain ID, nonce and gas limit set (nonce *)
(* and gas limit as the node answered), the bytes are the RLP encoding of  *)
(* that transaction signed with the default address's key, and the sender  *)
(* recovered from the bytes is the default address.  A call that returned  *)
(* without a delivery returned an error.                                   *)
(***************************************************************************)
C4_FilledThenSigned ==
    FillAndSignSend =>
        /\ \A j \in Deliveries :
              LET s == hist[StageOf("sign")].args[1]
                  d == DecodeRLP(wire[j].args[1])
              IN  /\ StageOf("sign") # 0
                  /\ wire[j].method = "eth_sendRawTransaction"
                  /\ s.from = Some(DefaultAddress)
                  /\ IsSet(s.chainID) /\ IsSet(s.nonce) /\ IsSet(s.gasLimit)
                  /\ s.to = hist[1].args[1].to /\ s.input = hist[1].args[1].input
                  /\ \E n \in 1..Len(wire) :
                        /\ wire[n].by = "nonce" /\ wire[n].resp = s.nonce
                        /\ wire[n].args[1] = AddressArg(DefaultAddress)
                  /\ \E n \in 1..Len(wire) :
                        wire[n].by = "gasLimit" /\ wire[n].resp = s.gasLimit
                  /\ wire[j].args = <<EncodeRLP(Sign(DefaultAddress, s))>>
                  /\ d.ok
                  /\ Recover(d.tx[1]) = Some(DefaultAddress)
                  /\ d.tx[1].nonce = ZeroIsNil(s.nonce[1])
                  /\ d.tx[1].gasLimit = ZeroIsNil(s.gasLimit[1])
        /\ Cardinality(Deliveries) <= 1
        /\ (pc = "done" /\ Deliveries = {}) => err # NoErr

C4_Witness ==
    /\ FillAndSignSend
    /\ pc = "done" /\ err = NoErr
    /\ Cardinality(Deliveries) = 1
    /\ hist[1].args[1].type = DynamicFeeTxType
    /\ DefaultAddress = 1
    /\ \E n \in 1..Len(wire) : wire[n].by = "chainID" /\ wire[n].resp = Some(1)

\* the call in progress asked the node for the chain ID
AsksChainID == \E j \in 1..Len(wire) : wire[j].method = "eth_chainId"

(***************************************************************************)
(* C11: for one chain-ID hijacker instance that fetches the chain ID,      *)
(* registered permanently or attached per call, once an eth_chainId        *)
(* request of an earlier call was answered no later call requests          *)
(* eth_chainId again.                                                      *)
(***************************************************************************)
C11_FetchedOnce == fetched => ~AsksChainID

\* a later call through the instance attached per call asks the node again
C11_Observed ==
    /\ fetched /\ AsksChainID
    /\ callCtx = 1

\* the permanently registered instance holds the chain ID the node reported
\* and a later call did not ask
C11_ReusedWhenPermanent ==
    /\ fetched /\ ~AsksChainID /\ pc = "done"
    /\ Len(callFunc) = 1 /\ callFunc[1].chainID # 0
    /\ Len(hist) = 1 /\ hist[1].out.args[1].chainID = Some(callFunc[1].chainID)

\* the chain-ID stage of call i stored the chain ID in the call's transaction
StageStored(i) == calls[i].held.kind = "var"

\* the value the stage of call i resolved: the node's answer to the call's
\* own request, else the value the call found in the hijacker
Resolved(i) == IF IsSet(calls[i].reported) THEN calls[i].reported ELSE Some(calls[i].seen)

(***************************************************************************)
(* C12: with concurrent eth_sendTransaction calls through one chain-ID     *)
(* hijacker, the chain ID a transaction holds once the stage has stored it *)
(* is the value the stage resolved for it (the node's answer or the        *)
(* configured value), whatever the other calls do afterwards.              *)
(***************************************************************************)
C12_ChainIDHeldIsResolved ==
    \A i \in 1..Len(calls) : StageStored(i) => Held(calls[i]) = Resolved(i)

\* a call whose eth_chainId failed has reset the chain ID that the
\* transaction of another call holds, which the node had reported as non-zero
C12_Observed ==
    \E i \in 1..Len(calls), k \in 1..Len(calls) :
        /\ i # k
        /\ StageStored(i) /\ IsSet(calls[i].reported) /\ calls[i].reported[1] # 0
        /\ calls[k].failed
        /\ Held(calls[i]) = Some(0)

(***************************************************************************)
(* The nonce stage and a transaction without a sender.                     *)
(***************************************************************************)
\* entry i of hist: the nonce stage got eth_sendTransaction with a transaction
\* whose nonce it has to resolve (unset, or replace is on) and whose from is
\* unset
NonceWithoutFrom(i) ==
    /\ hist[i].stage.kind = "nonce"
    /\ hist[i].method = "eth_sendTransaction"
    /\ Len(hist[i].args) > 0
    /\ IsTransaction(hist[i].args[1])
    /\ HasCallData(hist[i].args[1])
    /\ (hist[i].stage.replace \/ ~IsSet(hist[i].args[1].nonce))
    /\ ~IsSet(hist[i].args[1].from)

\* C13: when eth_sendTransaction reaches the nonce hijacker with a nonce to
\* resolve and the transaction's from is unset, the call fails with an error
\* of the nonce stage, the stage sends no eth_getTransactionCount request, and
\* neither a later stage nor the underlying transport receives the send.
C13_NoSenderFailsInNonceStage ==
    \A i \in 1..Len(hist) :
        NonceWithoutFrom(i) =>
            /\ ~hist[i].out.next
            /\ hist[i].out.err = ErrHijackFailed("nonce", "'from' field not set", "nonce")
            /\ hist[i].out.reqs = <<>>
            /\ i = Len(hist)
            /\ pc = "done"
            /\ err = hist[i].out.err
            /\ \A j \in 1..Len(wire) :
                    /\ wire[j].method # "eth_getTransactionCount"
                    /\ wire[j].by # "defCall"

\* the nonce stage has refused a send whose from is unset
C13_Witness ==
    /\ pc = "done"
    /\ \E i \in 1..Len(hist) : NonceWithoutFrom(i) /\ ~hist[i].out.next
    /\ err.wrapped /\ err.name = "nonce"
    /\ wire = <<>>

(***************************************************************************)
(* The gas-limit stage's eth_estimateGas among the address and gas-fee     *)
(* stages.                                                                 *)
(***************************************************************************)
GasFeeKinds == {"legacyGasFee", "dynamicGasFee"}

\* entry i of hist: the gas-limit stage sent eth_estimateGas
Estimates(i) == hist[i].stage.kind = "gasLimit" /\ hist[i].out.reqs # <<>>

\* the call the gas-limit stage of entry i sent with eth_estimateGas
EstimateCall(i) == hist[i].out.reqs[1].args[1]

\* the fee fields and the type of a call or transaction
FeesOf(x) == <<x.type, x.gasPrice, x.maxFee, x.maxPrio>>

CommonData(tx) == <<tx.chainID, tx.nonce, tx.sig>>
CallDataOf(tx) == <<tx.from, tx.to, tx.gasLimit, tx.value, tx.input>>

\* the program converted its transaction for a target fee fragment that the
\* transaction had (has = TRUE) or lacked
Converted(has) ==
    \/ applied = "convertTXToLegacyPrice" /\ HasLegacyPrice(before) = has
    \/ applied = "convertTXToDynamicFee" /\ HasDynamicFeeData(before) = has

\* C15: convertTXToLegacyPrice / convertTXToDynamicFee return the transaction
\* itself, unchanged, when it already has the target fee fragment; otherwise
\* they return a transaction of another variant that has the target fragment
\* and in which the common transaction data, the call data and every
\* fragment both variants embed (access list, legacy price, dynamic fee) hold
\* the values of the old transaction.
C15_ConvertKeepsSharedFragments ==
    /\ Converted(TRUE) => subject = before
    /\ Converted(FALSE) =>
          /\ subject.type # before.type
          /\ applied = "convertTXToLegacyPrice" => HasLegacyPrice(subject)
          /\ applied = "convertTXToDynamicFee" => HasDynamicFeeData(subject)
          /\ CommonData(subject) = CommonData(before)
          /\ CallDataOf(subject) = CallDataOf(before)
          /\ (HasAccessListData(subject) /\ HasAccessListData(before)) =>
                subject.accessList = before.accessList
          /\ (HasLegacyPrice(subject) /\ HasLegacyPrice(before)) =>
                subject.gasPrice = before.gasPrice
          /\ (HasDynamicFeeData(subject) /\ HasDynamicFeeData(before)) =>
                /\ subject.maxFee = before.maxFee
                /\ subject.maxPrio = before.maxPrio
          /\ HasAccessListData(before) => HasAccessListData(subject)

\* a signed blob transaction with an access list was converted to an
\* access-list transaction
C15_Witness ==
    /\ applied = "convertTXToLegacyPrice"
    /\ before.type = BlobTxType
    /\ before.accessList # <<>>
    /\ IsSet(before.sig) /\ IsSet(before.nonce)
    /\ subject.type = AccessListTxType
    /\ subject.accessList = before.accessList

(***************************************************************************)
(* The round trip through the codec.                                       *)
(***************************************************************************)
\* the program decoded the encoding of transaction before into subject
RoundTripped == applied = "DecodeRLP"

\* an optional number that is set and not zero keeps its value
KeptNumber(old, new) == (IsSet(old) /\ old[1] # 0) => new = old

\* the fields every variant encodes as one item of the list
ScalarsKept ==
    /\ subject.type = before.type
    /\ KeptNumber(before.nonce, subject.nonce)
    /\ KeptNumber(before.gasLimit, subject.gasLimit)
    /\ KeptNumber(before.gasPrice, subject.gasPrice)
    /\ KeptNumber(before.maxFee, subject.maxFee)
    /\ KeptNumber(before.maxPrio, subject.maxPrio)
    /\ KeptNumber(before.blobFee, subject.blobFee)
    /\ KeptNumber(before.value, subject.value)
    /\ IsSet(before.to) => subject.to = before.to
    /\ before.input # <<>> => subject.input = before.input
    /\ before.accessList # <<>> => subject.accessList = before.accessList
    /\ IsSet(before.sig) => subject.sig = before.sig

\* the signature's v of a Legacy transaction is the EIP-155 value of the
\* chain ID the transaction holds
VCarriesChainID(tx) ==
    /\ IsSet(tx.sig) /\ IsSet(tx.chainID)
    /\ tx.sig[1].v \in {2 * tx.chainID[1] + 35, 2 * tx.chainID[1] + 36}

EveryBlobHasSidecar(tx) == \A i \in 1..Len(tx.blobs) : IsSet(tx.blobs[i].sidecar)

\* C16 as stated: decoding the encoding of a transaction yields the same
\* variant with every non-zero / non-empty field (chain ID, nonce, gas limit,
\* fees, to, value, input, access list, blob data, signature) unchanged.
C16_RoundTripKeepsEveryField ==
    RoundTripped =>
        /\ ScalarsKept
        /\ KeptNumber(before.chainID, subject.chainID)
        /\ before.blobs # <<>> => subject.blobs = before.blobs

\* C16: decoding the encoding of a transaction yields the same variant with
\* every non-zero / non-empty encoded field unchanged: nonce, gas limit,
\* fees, to, value, input, access list, signature and non-zero blob hashes
\* always; the chain ID of a typed variant always and the chain ID of a
\* Legacy transaction when the signature's v carries it; the blob sidecars
\* when every blob has one.
C16_RoundTripKeepsEncodedFields ==
    RoundTripped =>
        /\ ScalarsKept
        /\ (before.type # LegacyTxType \/ VCarriesChainID(before)) =>
              KeptNumber(before.chainID, subject.chainID)
        /\ Len(subject.blobs) = Len(before.blobs)
        /\ \A i \in 1..Len(before.blobs) :
              /\ before.blobs[i].hash # ZeroHash =>
                    subject.blobs[i].hash = before.blobs[i].hash
              /\ EveryBlobHasSidecar(before) =>
                    subject.blobs[i].sidecar = before.blobs[i].sidecar

\* a signed blob transaction with chain ID, access list and a sidecar for
\* every blob went through the codec
C16_Witness ==
    /\ RoundTripped
    /\ before.type = BlobTxType
    /\ IsSet(before.sig) /\ IsSet(before.chainID) /\ IsSet(before.blobFee)
    /\ before.accessList # <<>>
    /\ before.blobs # <<>> /\ EveryBlobHasSidecar(before)
    /\ subject.blobs = before.blobs
    /\ subject.chainID = before.chainID

\* what the codec does with the fields C16 as stated is wrong about: an
\* unsigned Legacy transaction loses its chain ID, a blob transaction in
\* which not every blob has a sidecar loses the sidecars it has
C16_Observed ==
    /\ RoundTripped
    /\ \/ /\ before.type = LegacyTxType /\ ~IsSet(before.sig)
          /\ before.chainID = Some(1) /\ subject.chainID = None
       \/ /\ before.type = BlobTxType /\ ~EveryBlobHasSidecar(before)
          /\ \E i \in 1..Len(before.blobs) :
                IsSet(before.blobs[i].sidecar) /\ ~IsSet(subject.blobs[i].sidecar)

(***************************************************************************)
(* EIP-155: the chain ID inside v of a Legacy transaction.                 *)
(***************************************************************************)
\* the transaction holds the signature Sign makes for the fields it has
SignedAsIs(tx) == IsSet(tx.sig) /\ Sign(tx.sig[1].rs.signer, tx) = tx

\* C17: a Legacy transaction signed with chain ID c gets
\* v = 2*c + 35 + recovery bit, and decoding its encoding recovers exactly
\* chain ID c; decoding a Legacy transaction whose v is 27 or 28 recovers no
\* chain ID.
C17_ChainIDRecoveredFromV ==
    /\ (applied = "Sign" /\ before.type = LegacyTxType /\ IsSet(before.chainID)) =>
          subject.sig[1].v =
              2 * before.chainID[1] + 35 + RecoveryBit(subject.sig[1].rs.signer)
    /\ (/\ RoundTripped /\ before.type = LegacyTxType
        /\ IsSet(before.chainID) /\ SignedAsIs(before)) =>
          subject.chainID = before.chainID
    /\ (/\ RoundTripped /\ before.type = LegacyTxType
        /\ IsSet(before.sig) /\ before.sig[1].v \in {27, 28}) =>
          subject.chainID = None

\* what Sign and the decoder do with the chain ID 2^63 (HighBit): v is
\* 35 + recovery bit, and the chain ID decoded from it is 0
C17_Observed ==
    /\ RoundTripped /\ before.type = LegacyTxType
    /\ SignedAsIs(before) /\ before.chainID = Some(HighBit)
    /\ before.sig[1].v \in {35, 36}
    /\ subject.chainID = Some(0)

\* the cases in which C17 holds: a chain ID below 2^63, and v of 27 or 28
C17_HoldsBelowHighBit ==
    /\ (/\ applied = "Sign" /\ before.type = LegacyTxType
        /\ IsSet(before.chainID) /\ before.chainID[1] < HighBit) =>
          subject.sig[1].v =
              2 * before.chainID[1] + 35 + RecoveryBit(subject.sig[1].rs.signer)
    /\ (/\ RoundTripped /\ before.type = LegacyTxType
        /\ IsSet(before.chainID) /\ before.chainID[1] < HighBit
        /\ SignedAsIs(before)) =>
          subject.chainID = before.chainID
    /\ (/\ RoundTripped /\ before.type = LegacyTxType
        /\ IsSet(before.sig) /\ before.sig[1].v \in {27, 28}) =>
          subject.chainID = None

(***************************************************************************)
(* Sign and Recover.                                                       *)
(***************************************************************************)
\* C18: after Sign(key, tx) the transaction's from is the key's address and
\* Recover(tx) returns that address.
C18_RecoverReturnsSigner ==
    /\ applied = "Sign" => subject.from = Some(KeyAddress(subject.sig[1].rs.signer))
    /\ (applied = "Recover" /\ SignedAsIs(before)) =>
          yield = Some(KeyAddress(before.sig[1].rs.signer))

\* the only case in which C18 fails: a Legacy transaction signed with a chain
\* ID of 2^63 or more, for which Recover returns an error
C18_Observed ==
    /\ applied = "Recover" /\ SignedAsIs(before)
    /\ before.type = LegacyTxType /\ before.chainID = Some(HighBit)
    /\ yield = None

C18_HoldsBelowHighBit ==
    /\ applied = "Sign" => subject.from = Some(KeyAddress(subject.sig[1].rs.signer))
    /\ (/\ applied = "Recover" /\ SignedAsIs(before)
        /\ ~(/\ before.type = LegacyTxType /\ IsSet(before.chainID)
              /\ before.chainID[1] >= HighBit)) =>
          yield = Some(KeyAddress(before.sig[1].rs.signer))

\* the chain ID that v of a Legacy signature encodes (v >= 35)
ChainIDInV(v) == (v - 35) \div 2

\* Recover was applied to a Legacy transaction whose explicit chain ID
\* differs from the one its v encodes
RecoveredMismatch ==
    /\ applied = "Recover"
    /\ before.type = LegacyTxType
    /\ IsSet(before.sig) /\ before.sig[1].v >= 35
    /\ IsSet(before.chainID)
    /\ before.chainID[1] # ChainIDInV(before.sig[1].v)

\* C19: Recover on a Legacy transaction returns an error and no address
\* whenever the transaction's explicit chain ID differs from the chain ID
\* encoded in its signature's v.
C19_MismatchedChainIDFails == RecoveredMismatch => yield = None

\* the case in which C19 fails: chain ID 1 and a v that encodes 2^64 + 1
C19_Observed ==
    /\ RecoveredMismatch
    /\ before.chainID = Some(1)
    /\ ChainIDInV(before.sig[1].v) = Uint64Range + 1
    /\ IsSet(yield)

C19_HoldsWithinUint64 ==
    (RecoveredMismatch /\ ChainIDInV(before.sig[1].v) < Uint64Range) => yield = None

(***************************************************************************)
(* tx.Call() is a copy.                                                    *)
(***************************************************************************)
\* C20: the Call returned by tx.Call() shares no mutable state with tx:
\* whatever the program changes in the Call, every field of the source
\* transaction keeps the value it had when Call() was taken, and no cell is
\* reachable from both.
C20_CallSharesNothing ==
    IsSet(yield) =>
        /\ FieldValues(heap, subject) = before
        /\ Reach(heap, subject) \cap Reach(heap, yield[1]) = {}

\* the program wrote a storage key, a sidecar and the input of the Call of
\* a blob transaction, which now differ from the transaction's
C20_Witness ==
    /\ IsSet(yield)
    /\ subject.type = BlobTxType
    /\ before["accessList"] # <<>> /\ before["blobs"] # <<>> /\ before["input"] # <<>>
    /\ LET c == FieldValues(heap, yield[1])
       IN  /\ c["input"] = <<Dirty>>
           /\ c["accessList"] # <<>> /\ c["blobs"] # <<>>
           /\ c["accessList"][1].storageKeys # <<>>
           /\ c["accessList"][1].storageKeys[1] = Dirty
           /\ c["blobs"][1].sidecar = Some(Dirty)
           /\ c["value"] = Some(Dirty)

(***************************************************************************)
(* Contexts derived from the same parent.                                  *)
(***************************************************************************)
\* the call in progress was made with a context that has a sibling: another
\* context derived from the same parent
CallWithSibling ==
    /\ pc # "idle"
    /\ callCtx # 0
    /\ \E d \in 1..Len(ctxs) : d # callCtx /\ ctxs[d].parent = ctxs[callCtx].parent

\* the per-call stages of the call in progress
PerCallStages == SubSeq(chain, 1, Len(chain) - Len(callFunc))

\* C30: WithHijackers never changes the hijackers seen through another
\* context: a call made with a context derived from parent p runs exactly
\* p's per-call hijackers followed by the hijackers attached to that context,
\* whatever other contexts were derived from p and in whatever order.
C30_SiblingContextsIndependent ==
    CallWithSibling =>
        PerCallStages =
            Stages(Lineage(ctxs[callCtx].parent) \o ctxs[callCtx].attached)

\* a call made with the context that was derived first runs the hijacker
\* attached to its sibling, which was derived later
C30_Observed ==
    /\ CallWithSibling
    /\ \E d \in 1..Len(ctxs) :
          /\ d > callCtx /\ ctxs[d].parent = ctxs[callCtx].parent
          /\ PerCallStages = Stages(Lineage(d))
          /\ Lineage(d) # Lineage(callCtx)

(***************************************************************************)
(* The order Use documents.                                                *)
(***************************************************************************)
\* C27: hijackers added with Use are called in the order they were added: if
\* A was added before B, A's call stage runs before B's on every Call.
C27_AddedFirstRunsFirst ==
    (pc # "idle" /\ callCtx = 0) =>
        \A i \in 1..Len(hist), k \in 1..Len(hist) :
            hist[i].stage.id < hist[k].stage.id => i < k

\* on a call the stage of the hijacker added second ran before the stage of
\* the hijacker added first
C27_Observed ==
    /\ pc = "done" /\ callCtx = 0
    /\ Len(hist) = 2
    /\ hist[1].stage.id = 2 /\ hist[2].stage.id = 1

(***************************************************************************)
(* The dynamic-gas-fee hijacker with replace=false.                        *)
(***************************************************************************)
\* stage i is a dynamic-gas-fee stage that does not replace and got an
\* eth_sendTransaction with a transaction that has dynamic fee data
DynamicFeeKept(i) ==
    /\ hist[i].stage.kind = "dynamicGasFee"
    /\ ~hist[i].stage.replace
    /\ hist[i].method = "eth_sendTransaction"
    /\ Len(hist[i].args) > 0 /\ IsTransaction(hist[i].args[1])
    /\ HasDynamicFeeData(hist[i].args[1])

\* C29: with replace=false a MaxFeePerGas or MaxPriorityFeePerGas already set
\* on the transaction is never overwritten, also when only one of the two
\* is set.
C29_SetDynamicFeeKept ==
    \A i \in 1..Len(hist) :
        DynamicFeeKept(i) =>
            /\ IsSet(hist[i].args[1].maxFee) =>
                  hist[i].out.args[1].maxFee = hist[i].args[1].maxFee
            /\ IsSet(hist[i].args[1].maxPrio) =>
                  hist[i].out.args[1].maxPrio = hist[i].args[1].maxPrio

\* the stage got a transaction with only MaxFeePerGas set and passed it on
\* with another MaxFeePerGas
C29_Observed ==
    /\ Len(hist) = 1 /\ DynamicFeeKept(1)
    /\ IsSet(hist[1].args[1].maxFee) /\ ~IsSet(hist[1].args[1].maxPrio)
    /\ hist[1].out.next
    /\ hist[1].out.args[1].maxFee # hist[1].args[1].maxFee

\* the case in which C29 holds: both fields are set
C29_HoldsWhenBothSet ==
    \A i \in 1..Len(hist) :
        (/\ DynamicFeeKept(i)
         /\ IsSet(hist[i].args[1].maxFee) /\ IsSet(hist[i].args[1].maxPrio)) =>
            /\ hist[i].out.args[1].maxFee = hist[i].args[1].maxFee
            /\ hist[i].out.args[1].maxPrio = hist[i].args[1].maxPrio
            /\ hist[i].out.reqs = <<>>

\* the stage at position i fetched from the node and wrote what it computed
Wrote(i, kind) ==
    /\ hist[i].stage.kind = kind
    /\ hist[i].out.next
    /\ hist[i].out.reqs # <<>>

\* v lies within the bounds min and max that nil switches off
WithinFee(v, min, max) ==
    /\ IsSet(min) => v >= min[1]
    /\ IsSet(max) => v <= max[1]

\* v lies within the bounds min and max that 0 switches off
WithinGas(v, min, max) ==
    /\ min > 0 => v >= min
    /\ max > 0 => v <= max

\* the gas limit, the gas price and the max fee per gas a stage wrote lie
\* within the configured bounds
GasAndPriceWithin(i) ==
    LET h == hist[i].stage
        tx == hist[i].out.args[1]
    IN  /\ Wrote(i, "gasLimit") => WithinGas(tx.gasLimit[1], h.minGas, h.maxGas)
        /\ Wrote(i, "legacyGasFee") => WithinFee(tx.gasPrice[1], h.minGasPrice, h.maxGasPrice)
        /\ Wrote(i, "dynamicGasFee") => WithinFee(tx.maxFee[1], h.minGasPrice, h.maxGasPrice)

\* C23: whenever a gas-limit or gas-fee hijacker writes a gas limit, a gas
\* price, a max fee per gas or a max priority fee per gas, the written value
\* lies within the configured minimum and maximum, for every value the node
\* returns and every configuration whose minimum does not exceed its maximum.
C23_WrittenWithinBounds ==
    \A i \in 1..Len(hist) :
        /\ GasAndPriceWithin(i)
        /\ Wrote(i, "dynamicGasFee") =>
               WithinFee(hist[i].out.args[1].maxPrio[1],
                         hist[i].stage.minPriorityFeePerGas,
                         hist[i].stage.maxPriorityFeePerGas)

\* C23, amended: the same, except that a max priority fee per gas that would
\* exceed the written max fee per gas is lowered to it, and may then lie
\* below its configured minimum; it never exceeds its configured maximum.
C23_WrittenWithinBoundsOrCapped ==
    \A i \in 1..Len(hist) :
        /\ GasAndPriceWithin(i)
        /\ Wrote(i, "dynamicGasFee") =>
               LET h == hist[i].stage
                   tx == hist[i].out.args[1]
               IN  /\ tx.maxPrio[1] <= tx.maxFee[1]
                   /\ WithinFee(tx.maxPrio[1], None, h.maxPriorityFeePerGas)
                   /\ \/ WithinFee(tx.maxPrio[1], h.minPriorityFeePerGas, None)
                      \/ tx.maxPrio[1] = tx.maxFee[1]

\* a dynamic gas-fee stage raised the node's gas price to its minimum and
\* lowered the priority fee, which its own minimum had raised, to the max fee
C23_Witness ==
    \E i \in 1..Len(hist) :
        /\ Wrote(i, "dynamicGasFee")
        /\ IsSet(hist[i].stage.minGasPrice)
        /\ IsSet(hist[i].stage.minPriorityFeePerGas)
        /\ hist[i].out.args[1].maxFee = hist[i].stage.minGasPrice
        /\ hist[i].out.reqs[1].resp[1] < hist[i].stage.minGasPrice[1]
        /\ hist[i].out.args[1].maxPrio[1] < hist[i].stage.minPriorityFeePerGas[1]
        /\ hist[i].out.args[1].maxPrio = hist[i].out.args[1].maxFee

\* NewClient has returned a client
ClientBuilt == applied = "NewClient" /\ IsSet(yield.client)

\* the options passed to NewClient include the constructor named
Given(name) == \E i \in 1..Len(subject) : subject[i].opt = name

\* C28: NewClient and NewCustomClient return an error and no client whenever
\* no WithTransport option is supplied, whatever other options are supplied.
C28_NoTransportNoClient ==
    (applied = "NewClient" /\ ~Given("WithTransport")) =>
        (yield.err # "" /\ yield.client = None)

\* the constructor returned a client without WithTransport, and a call on it
\* reached defCall with a nil transport
C28_Observed ==
    /\ ClientBuilt
    /\ ~Given("WithTransport")
    /\ pc = "done"
    /\ err = Panic("defCall")

\* the constructor does fail when no option that adds a hijacker is passed
C28_HoldsWithoutHijackerOptions ==
    (applied = "NewClient" /\ \A i \in 1..Len(subject) : subject[i].opt = "WithTransactionDecoder")
        => (yield.err # "" /\ yield.client = None)

\* C25: the hijackers passed to WithPreHijackers are registered on the client
\* and run before every other hijacker the client applies, and the hijackers
\* passed to WithPostHijackers are registered and run after every other.
C25_PrePostHijackersRegistered ==
    ClientBuilt =>
        \A i \in 1..Len(subject) :
            /\ subject[i].opt = "WithPreHijackers" =>
                   /\ Len(callFunc) >= Len(subject[i].hijackers)
                   /\ SubSeq(callFunc, 1, Len(subject[i].hijackers)) = subject[i].hijackers
            /\ subject[i].opt = "WithPostHijackers" =>
                   /\ Len(callFunc) >= Len(subject[i].hijackers)
                   /\ SubSeq(callFunc, Len(callFunc) - Len(subject[i].hijackers) + 1,
                             Len(callFunc)) = subject[i].hijackers

\* a call on a client built with WithPreHijackers went through a simulate
\* stage first, and the client's chain holds no hijacker of the caller's
C25_Observed ==
    /\ ClientBuilt
    /\ Given("WithPreHijackers")
    /\ \A i \in 1..Len(callFunc) : callFunc[i].kind # "custom"
    /\ hist # <<>>
    /\ hist[1].stage = [kind |-> "simulate", decoder |-> FALSE, recoverer |-> TRUE]

\* what each of the two options does add runs first, respectively last
C25_AddedStageRunsFirstOrLast ==
    ClientBuilt =>
        \A i \in 1..Len(subject) :
            /\ subject[i].opt = "WithPreHijackers" => callFunc[1] = subject[i].h
            /\ subject[i].opt = "WithPostHijackers" => callFunc[Len(callFunc)] = subject[i].h

\* the client was built with WithSimulate, and with no other option that adds
\* a simulate stage
SimulateClient ==
    /\ ClientBuilt
    /\ Given("WithSimulate")
    /\ ~Given("WithPreHijackers")
    /\ ~Given("WithPostHijackers")

\* the simulate stage at position i received eth_sendRawTransaction or
\* eth_sendPrivateTransaction with the encoding of a signed transaction
RawSend(i) ==
    /\ hist[i].stage.kind = "simulate"
    /\ hist[i].method \in {"eth_sendRawTransaction", "eth_sendPrivateTransaction"}
    /\ Len(hist[i].args) > 0
    /\ IsBytes(hist[i].args[1])
    /\ DecodeRLP(hist[i].args[1]).ok
    /\ IsSet(Recover(DecodeRLP(hist[i].args[1]).tx[1]))

\* that stage decoded the transaction, recovered its sender, simulated it with
\* eth_call and, when the simulation succeeded, forwarded the request unchanged
SimulatedAndForwarded(i) ==
    LET tx == DecodeRLP(hist[i].args[1]).tx[1]
        call == TxCall([tx EXCEPT !.from = Recover(tx)])
        out == hist[i].out
    IN  /\ Len(out.reqs) = 1
        /\ out.reqs[1].method = "eth_call"
        /\ out.reqs[1].args = <<call[1], BlockArg("latest")>>
        /\ IsSet(out.reqs[1].resp) =>
               /\ out.next
               /\ out.method = hist[i].method
               /\ out.args = hist[i].args

\* C26: on a client built with WithSimulate, an eth_sendRawTransaction or
\* eth_sendPrivateTransaction call carrying a validly encoded signed
\* transaction is decoded, its sender is recovered, it is simulated with
\* eth_call, and on success the original request is forwarded unchanged.
C26_RawSendSimulated ==
    SimulateClient => \A i \in 1..Len(hist) : RawSend(i) => SimulatedAndForwarded(i)

\* the simulate stage of such a client dereferenced its nil decoder
C26_Observed ==
    /\ SimulateClient
    /\ \E i \in 1..Len(hist) :
        /\ RawSend(i)
        /\ hist[i].out.err = Panic("simulate")
        /\ hist[i].out.reqs = <<>>

\* a simulate hijacker that has a decoder and a recoverer does all of it
C26_HoldsWithDecoderAndRecoverer ==
    \A i \in 1..Len(hist) :
        (RawSend(i) /\ hist[i].stage.decoder /\ hist[i].stage.recoverer)
            => SimulatedAndForwarded(i)

\* the node answered the key's request with bytes that decode
NodeSigned ==
    /\ applied = "KeyRPC.SignTransaction"
    /\ IsSet(yield.answer)
    /\ DecodeRLP(yield.answer[1]).ok

\* the sender recovered from the transaction the node signed
NodeSigner == Recover(DecodeRLP(yield.answer[1]).tx[1])

\* C24: KeyRPC.SignTransaction returns an error whenever the sender recovered
\* from the transaction signed by the remote node is not the key's own
\* address, and returns success only when the recovered sender equals the
\* key's address.
C24_MismatchIsAnError ==
    applied = "KeyRPC.SignTransaction" =>
        /\ (NodeSigned /\ NodeSigner # Some(yield.address)) => yield.err # ""
        /\ yield.err = "" =>
               /\ NodeSigned
               /\ NodeSigner = Some(yield.address)
               /\ Recover(subject) = Some(yield.address)

\* the node signed the transaction as it was sent with the key of another
\* address, and SignTransaction returned the error of the comparison
C24_Witness ==
    /\ NodeSigned
    /\ IsSet(NodeSigner)
    /\ NodeSigner[1] \in Addrs
    /\ NodeSigner[1] # yield.address
    /\ yield.err = "recovered address does not match key address"

\* SignTransaction succeeded
C24_SuccessObserved ==
    /\ NodeSigned
    /\ yield.err = ""

\* the context is cancelled or the transport closed the raw channel
Ending == Subscribed /\ (sub.ctxDone \/ sub.rawClosed)

\* the task called Unsubscribe with the subscription's id and closed the
\* outbound channel
Ended == Subscribed /\ sub.unsubscribed = <<sub.id>> /\ sub.closed

\* C21: once the context is cancelled or the transport closes the raw
\* channel, the background task eventually calls Unsubscribe for the
\* subscription's id and then closes the outbound channel, in every
\* execution and whatever the consumer of the outbound channel does.
C21_EndingLeadsToEnded == Ending ~> Ended

\* the context is cancelled and the task waits for a consumer that has
\* stopped receiving
C21_Observed ==
    /\ Subscribed
    /\ sub.ctxDone
    /\ sub.pc = "send"
    /\ ~sub.reading
    /\ ~sub.closed
    /\ sub.unsubscribed = <<>>

\* the task ends unless the consumer stops receiving
C21_HoldsWhileConsumerReceives == Ending ~> (Ended \/ (Subscribed /\ ~sub.reading))

\* the outbound channel is closed only after Unsubscribe was called
C21_UnsubscribeBeforeClose ==
    (Subscribed /\ sub.closed) => sub.unsubscribed = <<sub.id>>

\* the values of the messages of a sequence that decode, in order
RECURSIVE DecodedOf(_)
DecodedOf(raws) ==
    IF raws = <<>> THEN <<>>
    ELSE IF IsSet(Unmarshal(Head(raws)))
    THEN <<Unmarshal(Head(raws))[1]>> \o DecodedOf(Tail(raws))
    ELSE DecodedOf(Tail(raws))

\* C22: while a subscription is active, every raw message that decodes is
\* forwarded on the outbound channel exactly once and in the order it was
\* received; a message that fails to decode is not forwarded, produces no
\* error and does not stop later messages from being delivered: the values
\* the consumer received, followed by the one being sent, are the decodable
\* messages received, and the task returns only on cancellation or closure.
C22_DecodedForwardedInOrder ==
    Subscribed =>
        /\ DecodedOf(sub.taken) =
               IF sub.pc = "send" THEN Append(sub.msgCh, sub.msg) ELSE sub.msgCh
        /\ sub.pc \in {"unsubscribe", "close", "exited"} =>
               (sub.ctxDone \/ (sub.rawClosed /\ sub.rawCh = <<>>))

\* a message that did not decode was received before two that did, and the
\* consumer received those two in order
C22_Witness ==
    /\ Subscribed
    /\ Len(sub.taken) = 3
    /\ ~IsSet(Unmarshal(sub.taken[1]))
    /\ sub.msgCh = <<2, 1>>
    /\ sub.pc = "select"

====
